---- MODULE Spec2Model ----
(***************************************************************************)
(* A model of the per-container lifecycle engine of lxd/container_lxc.go.  *)
(*                                                                         *)
(* Part I   (Spec): the operation registry                                 *)
(*          (lxcContainerOperation, createOperation) and the handlers that *)
(*          use it or bypass it: Start, Stop, Shutdown, OnStop, Update,    *)
(*          Delete, at the granularity of the registry mutex, channel      *)
(*          operations and runtime calls.                                  *)
(* Part II  (SpecIdmap): findIdmap and its callers containerLXCCreate and  *)
(*          Update.                                                        *)
(* Part III (SpecDelete): Delete and everything it removes.                *)
(* Part IV  (SpecLife): Start, Stop, Freeze and Unfreeze on one container, *)
(*          one request at a time.                                         *)
(* Part V   (SpecUpdate): Update on one container, one request at a time.  *)
(* Part VI  (SpecRestore): Restore of a container from a snapshot.          *)
(***************************************************************************)
EXTENDS Integers, Sequences, FiniteSets, TLC

VARIABLES
    lxcContainerOperations, \* the registry: container id -> operation (Nil: none)
    ops,                    \* every lxcContainerOperation ever allocated, by identity
    threads,                \* request goroutines and hook goroutines
    ct,                     \* the container: runtime state and flags
    cts,                    \* Part II: the containers table, by name
    serial,                 \* Part II: no two requests have overlapped so far
    requests,               \* Part II: the number of requests made so far
    world,                  \* Part III: the instance that Delete works on
    life,                   \* Part IV: the container that Start works on
    upd,                     \* Part V: the container that Update works on
    exec,                    \* Part VII: the child of an Exec and what Exec reports
    mon,                     \* Part VIII: a state query and its caller
    stp,                     \* Part IX: one Stop and its post-stop hook
    mem,                     \* Part X: the live change of a memory limit
    sc,                      \* Part XI: Start, the shift of the rootfs and the mounts
    bal,                     \* Part XII: the CPU rebalance
    sch,                     \* Part XIII: the rebalance requests
    bus,                     \* Part XIV: the event loops
    usb,                     \* Part XV: the USB hotplug
    tpl,                     \* Part XVI: the deferred templates
    ino                     \* Part XVII: the inotify watches

opVars == <<lxcContainerOperations, ops, threads, ct>>
idmapVars == <<cts, serial, requests>>
deleteVars == <<world>>
lifeVars == <<life>>
updateVars == <<upd>>
laterVars == <<exec, mon, stp, mem, sc, bal, sch, bus, usb, tpl, ino>>
butInoVars == <<opVars, idmapVars, deleteVars, lifeVars, updateVars, exec, mon, stp, mem, sc, bal, sch, bus, usb, tpl>>
butTplVars == <<opVars, idmapVars, deleteVars, lifeVars, updateVars, exec, mon, stp, mem, sc, bal, sch, bus, usb, ino>>
butUsbVars == <<opVars, idmapVars, deleteVars, lifeVars, updateVars, exec, mon, stp, mem, sc, bal, sch, bus, tpl, ino>>
butBusVars == <<opVars, idmapVars, deleteVars, lifeVars, updateVars, exec, mon, stp, mem, sc, bal, sch, usb, tpl, ino>>
butSchVars == <<opVars, idmapVars, deleteVars, lifeVars, updateVars, exec, mon, stp, mem, sc, bal, bus, usb, tpl, ino>>
butBalVars == <<opVars, idmapVars, deleteVars, lifeVars, updateVars, exec, mon, stp, mem, sc, sch, bus, usb, tpl, ino>>
butScVars == <<opVars, idmapVars, deleteVars, lifeVars, updateVars, exec, mon, stp, mem, bal, sch, bus, usb, tpl, ino>>
butMemVars == <<opVars, idmapVars, deleteVars, lifeVars, updateVars, exec, mon, stp, sc, bal, sch, bus, usb, tpl, ino>>
butStpVars == <<opVars, idmapVars, deleteVars, lifeVars, updateVars, exec, mon, mem, sc, bal, sch, bus, usb, tpl, ino>>
butMonVars == <<opVars, idmapVars, deleteVars, lifeVars, updateVars, exec, stp, mem, sc, bal, sch, bus, usb, tpl, ino>>
butExecVars == <<opVars, idmapVars, deleteVars, lifeVars, updateVars, mon, stp, mem, sc, bal, sch, bus, usb, tpl, ino>>

\* ------------------------------------------------------------------------
\* Bounds and program constants
\* ------------------------------------------------------------------------

\* How many operation objects one run may allocate.
MaxOps == 2
\* The granularity of the clock: one Tick is this many seconds.
TickSeconds == 30
\* time.After(time.Second * 30) in lxcContainerOperation.Create.
OpTimeoutSeconds == 30

Nil == 0
Containers == {1}
Callers == {"r1", "r2"}
Hooks == {"h1"}
Threads == Callers \cup Hooks

Min(a, b) == IF a < b THEN a ELSE b

\* ------------------------------------------------------------------------
\* lxcContainerOperation
\* ------------------------------------------------------------------------

\* op.Create(id, action, reusable): the fields, the two channels (chanDone is
\* modelled by closed, chanReset by the rendezvous in Reset) and the timer
\* goroutine with its elapsed time since the last time.After was armed.
Create(id, action, reusable) ==
    [id |-> id, action |-> action, reusable |-> reusable,
     closed |-> FALSE, err |-> "nil", timer |-> "alive", elapsed |-> 0]

\* A Done that acts whatever the registry holds: the variant that C37 must
\* tell from the code.
DoneAppliesAlways(o) == TRUE

\* The guard of Done: "runningOp, ok := lxcContainerOperations[op.id];
\* if !ok || runningOp != op { return }".
DoneApplies(o) == lxcContainerOperations[ops[o].id] = o

\* op.Done(err) under lxcContainerOperationsLock: the registry and the
\* operations after the call.
Done(o, e) ==
    IF DoneApplies(o)
    THEN [ops |-> [ops EXCEPT ![o].err = e, ![o].closed = TRUE],
          reg |-> [lxcContainerOperations EXCEPT ![ops[o].id] = Nil]]
    ELSE [ops |-> ops, reg |-> lxcContainerOperations]

\* A createOperation that would hand out the existing operation as soon as
\* one of the two flags is set: the variant that C3 must tell from the code.
ReuseEither(reuse, reusable) == reuse \/ reusable

\* The condition under which createOperation hands out the existing operation:
\* "if reuse && op.reusable".
ReuseAllowed(reuse, reusable) == reuse /\ reusable

\* The arguments each handler passes to createOperation(action, reusable, reuse).
OpAction(call) == IF call = "Start" THEN "start" ELSE "stop"
OpReusable(call) == call = "Shutdown"
OpReuse(call) == call \in {"Stop", "Shutdown"}

\* ------------------------------------------------------------------------
\* Initial state
\* ------------------------------------------------------------------------

\* A goroutine that runs no handler.  call is the innermost handler being
\* run, at the place in it, id the container it works on, op that handler's
\* local "op", hop the local "op" of an enclosing OnStop, target the argument
\* of OnStop, ret the busy error of createOperation if that is what the
\* thread's handler returned ("none" otherwise).
IdleThread ==
    [call |-> "none", at |-> "idle", id |-> 1, op |-> Nil, hop |-> Nil,
     target |-> "", ret |-> "none"]

\* The registry is the empty map of its declaration, no operation exists, no
\* handler runs; the container has been created, ephemeral or not, and a
\* created container is stopped.
InitOps ==
    /\ lxcContainerOperations = [c \in Containers |-> Nil]
    /\ ops = << >>
    /\ threads = [t \in Threads |-> IdleThread]
    /\ \E e \in BOOLEAN :
          ct = [c \in Containers |->
                  [state |-> "STOPPED", ephemeral |-> e, exists |-> TRUE]]

\* ------------------------------------------------------------------------
\* Helpers of the thread programs
\* ------------------------------------------------------------------------

\* Steps of a handler that touch nothing another goroutine reads (a failing
\* local call, the spawn of a goroutine, a log line) are taken together with
\* the next step that does.

OpIds == 1..Len(ops)

\* "Container is busy running a %s operation".
Busy(action) == IF action = "start" THEN "busy_start" ELSE "busy_stop"

\* Where a handler continues once createOperation returned an operation:
\* Start at setupSharedMounts, Stop at its stop request, Shutdown at initLXC
\* and "c.c.Shutdown(timeout)".
BodyOf(call) ==
    IF call = "Start" THEN "start_body"
    ELSE IF call = "Stop" THEN "stop_body" ELSE "runtime_shutdown"

\* The thread after its innermost handler returned: a request goroutine is
\* done; a hook goroutine is back in OnStop's goroutine body, before its
\* deferred Done.  Of the result the thread keeps r: the busy error of
\* createOperation, "none" for every other result.
Finish(t, th, r) ==
    IF t \in Callers \/ th.call = "OnStop"
    THEN [IdleThread EXCEPT !.ret = r]
    ELSE [th EXCEPT !.call = "OnStop", !.at = "onstop_defer", !.op = Nil, !.ret = r]

IdleHooks == {h \in Hooks : threads[h].at = "idle"}

\* The runtime calls the post-stop hook: "lxd callhook ... stop" reaches OnStop.
HookStarted(c, target) ==
    [IdleThread EXCEPT !.call = "OnStop", !.at = "onstop_get", !.id = c, !.target = target]

\* ------------------------------------------------------------------------
\* createOperation(action, reusable, reuse)
\* ------------------------------------------------------------------------

\* The first critical section, "op, _ := c.getOperation("")", and the branch
\* on its result: the thread th, entering handler call, goes on to allocate,
\* to Reset the operation it found, or returns the busy error.
getOperation(t, th, call) ==
    LET o == lxcContainerOperations[th.id] IN
    IF o = Nil
    THEN [th EXCEPT !.call = call, !.at = "create_new", !.op = Nil]
    ELSE IF ReuseAllowed(OpReuse(call), ops[o].reusable)
    THEN [th EXCEPT !.call = call, !.at = "create_reset", !.op = o]
    ELSE Finish(t, [th EXCEPT !.call = call], Busy(ops[o].action))

\* op.Reset(): an error at once on a non-reusable operation; otherwise the
\* send on the unbuffered chanReset, which completes only when the timer
\* goroutine receives it and arms a new time.After.
Reset(o) ==
    IF ~ops[o].reusable
    THEN UNCHANGED ops
    ELSE /\ ops[o].timer = "alive"
         /\ ops' = [ops EXCEPT ![o].elapsed = 0]

\* "op.Reset(); return op, nil".
CreateReset(t) ==
    LET th == threads[t] IN
    /\ th.at = "create_reset"
    /\ Reset(th.op)
    /\ threads' = [threads EXCEPT ![t] = [th EXCEPT !.at = BodyOf(th.call)]]
    /\ UNCHANGED <<lxcContainerOperations, ct>>
    /\ UNCHANGED <<idmapVars, deleteVars, lifeVars, updateVars, laterVars>>

\* The second critical section: allocate, Create, register, return.  (A run
\* allocates at most MaxOps operations.)
CreateNew(t) ==
    LET th == threads[t]
        o == Len(ops) + 1
    IN  /\ th.at = "create_new"
        /\ Len(ops) < MaxOps
        /\ ops' = Append(ops, Create(th.id, OpAction(th.call), OpReusable(th.call)))
        /\ lxcContainerOperations' = [lxcContainerOperations EXCEPT ![th.id] = o]
        /\ threads' = [threads EXCEPT ![t] = [th EXCEPT !.at = BodyOf(th.call), !.op = o]]
        /\ UNCHANGED ct
        /\ UNCHANGED <<idmapVars, deleteVars, lifeVars, updateVars, laterVars>>

\* ------------------------------------------------------------------------
\* The timer goroutine of an operation
\* ------------------------------------------------------------------------

\* "case <-time.After(time.Second * 30): op.Done(timeout error); return".
TimerExpire(o) ==
    /\ o \in OpIds
    /\ ops[o].timer = "alive"
    /\ ops[o].elapsed >= OpTimeoutSeconds
    /\ ops' = [Done(o, "timeout").ops EXCEPT ![o].timer = "exited"]
    /\ lxcContainerOperations' = Done(o, "timeout").reg
    /\ UNCHANGED <<threads, ct>>
    /\ UNCHANGED <<idmapVars, deleteVars, lifeVars, updateVars, laterVars>>

\* Time passes for every armed timer.
Tick ==
    /\ \E o \in OpIds : ops[o].timer = "alive" /\ ops[o].elapsed < OpTimeoutSeconds
    /\ ops' = [o \in OpIds |->
                 IF ops[o].timer = "alive"
                 THEN [ops[o] EXCEPT !.elapsed = Min(@ + TickSeconds, OpTimeoutSeconds)]
                 ELSE ops[o]]
    /\ UNCHANGED <<lxcContainerOperations, threads, ct>>
    /\ UNCHANGED <<idmapVars, deleteVars, lifeVars, updateVars, laterVars>>

\* ------------------------------------------------------------------------
\* Start
\* ------------------------------------------------------------------------

\* A request for Start(stateful) arrives: its first statement is createOperation.
CallStart(t) ==
    /\ t \in Callers
    /\ threads[t].at = "idle"
    /\ ct[threads[t].id].exists
    /\ threads' = [threads EXCEPT ![t] = getOperation(t, IdleThread, "Start")]
    /\ UNCHANGED <<lxcContainerOperations, ops, ct>>
    /\ UNCHANGED <<idmapVars, deleteVars, lifeVars, updateVars, laterVars>>

\* Start after "defer op.Done(nil)": setupSharedMounts, startCommon,
\* StorageStart, forkstart and the post-start hooks.  On a failure Start
\* returns the error and the deferred "op.Done(nil)" runs (a forkstart error
\* counts only if the container is not running).  Otherwise the container
\* runs, and either the hooks succeed or one fails, which leads to
\* "op.Done(err); c.Stop(false); return err".
StartBody(t) ==
    LET th == threads[t] IN
    /\ th.at = "start_body"
    /\ \/ /\ threads' = [threads EXCEPT ![t] = Finish(t, th, "none")]
          /\ ops' = Done(th.op, "nil").ops
          /\ lxcContainerOperations' = Done(th.op, "nil").reg
          /\ UNCHANGED ct
       \/ /\ threads' = [threads EXCEPT ![t] = [th EXCEPT !.at = "start_defer"]]
          /\ ct' = [ct EXCEPT ![th.id].state = "RUNNING"]
          /\ UNCHANGED <<lxcContainerOperations, ops>>
       \/ /\ threads' = [threads EXCEPT ![t] = [th EXCEPT !.at = "start_hookfail"]]
          /\ ct' = [ct EXCEPT ![th.id].state = "RUNNING"]
          /\ UNCHANGED <<lxcContainerOperations, ops>>
    /\ UNCHANGED <<idmapVars, deleteVars, lifeVars, updateVars, laterVars>>

\* "op.Done(err)" of the failed post-start hook; "c.Stop(false)" is next.
StartHookFail(t) ==
    LET th == threads[t] IN
    /\ th.at = "start_hookfail"
    /\ ops' = Done(th.op, "err").ops
    /\ lxcContainerOperations' = Done(th.op, "err").reg
    /\ threads' = [threads EXCEPT ![t] =
          [th EXCEPT !.call = "Stop", !.at = "stop_entry", !.op = Nil]]
    /\ UNCHANGED ct
    /\ UNCHANGED <<idmapVars, deleteVars, lifeVars, updateVars, laterVars>>

\* The Stop that Start calls: "if !c.IsRunning() { return already stopped }",
\* then createOperation("stop", false, true).  Whatever it returns, Start
\* returns the hook's error, and Start's deferred "op.Done(nil)" finds the
\* operation completed by the Done before.
NestedStop(t) ==
    LET th == threads[t] IN
    /\ th.at = "stop_entry"
    /\ threads' = [threads EXCEPT ![t] =
          IF ct[th.id].state = "RUNNING"
          THEN getOperation(t, th, "Stop")
          ELSE Finish(t, th, "none")]
    /\ UNCHANGED <<lxcContainerOperations, ops, ct>>
    /\ UNCHANGED <<idmapVars, deleteVars, lifeVars, updateVars, laterVars>>

\* The deferred "op.Done(nil)" of a Start that succeeded.
StartDefer(t) ==
    LET th == threads[t] IN
    /\ th.at = "start_defer"
    /\ ops' = Done(th.op, "nil").ops
    /\ lxcContainerOperations' = Done(th.op, "nil").reg
    /\ threads' = [threads EXCEPT ![t] = Finish(t, th, "none")]
    /\ UNCHANGED ct
    /\ UNCHANGED <<idmapVars, deleteVars, lifeVars, updateVars, laterVars>>

\* ------------------------------------------------------------------------
\* Stop and Shutdown
\* ------------------------------------------------------------------------

\* A request for Stop(stateful) or Shutdown(timeout) arrives.  Both begin with
\* "if !c.IsRunning() { return already stopped }" and then createOperation.
CallStopOrShutdown(t, call) ==
    /\ t \in Callers
    /\ call \in {"Stop", "Shutdown"}
    /\ threads[t].at = "idle"
    /\ ct[threads[t].id].exists
    /\ threads' = [threads EXCEPT ![t] =
          IF ct[threads[t].id].state = "RUNNING"
          THEN getOperation(t, IdleThread, call)
          ELSE IdleThread]
    /\ UNCHANGED <<lxcContainerOperations, ops, ct>>
    /\ UNCHANGED <<idmapVars, deleteVars, lifeVars, updateVars, laterVars>>

\* Stop after createOperation: the checkpoint (stateful) or initLXC, the
\* fork-bomb mitigation and "c.c.Stop()".  A failure leads to
\* "op.Done(err); return err".  When the runtime stops the container it runs
\* the post-stop hook, and Stop goes on to "op.Wait()".
StopBody(t) ==
    LET th == threads[t] IN
    /\ th.at = "stop_body"
    /\ \/ /\ threads' = [threads EXCEPT ![t] = Finish(t, th, "none")]
          /\ ops' = Done(th.op, "err").ops
          /\ lxcContainerOperations' = Done(th.op, "err").reg
          /\ UNCHANGED ct
       \/ /\ ct[th.id].state = "RUNNING"
          /\ \E h \in IdleHooks :
                threads' = [threads EXCEPT ![t] = [th EXCEPT !.at = "wait"],
                                           ![h] = HookStarted(th.id, "stop")]
          /\ ct' = [ct EXCEPT ![th.id].state = "STOPPED"]
          /\ UNCHANGED <<lxcContainerOperations, ops>>
    /\ UNCHANGED <<idmapVars, deleteVars, lifeVars, updateVars, laterVars>>

\* Shutdown after createOperation, in initLXC and "c.c.Shutdown(timeout)".
\* Either fails ("op.Done(err); return err": initLXC failed, the timeout
\* passed, the runtime failed), or the container stopped: by this request
\* (the runtime then runs the post-stop hook) or by someone else meanwhile.
\* Shutdown goes on to "op.Wait()".
RuntimeShutdown(t) ==
    LET th == threads[t] IN
    /\ th.at = "runtime_shutdown"
    /\ \/ /\ threads' = [threads EXCEPT ![t] = Finish(t, th, "none")]
          /\ ops' = Done(th.op, "err").ops
          /\ lxcContainerOperations' = Done(th.op, "err").reg
          /\ UNCHANGED ct
       \/ /\ ct[th.id].state = "RUNNING"
          /\ \E h \in IdleHooks :
                threads' = [threads EXCEPT ![t] = [th EXCEPT !.at = "wait"],
                                           ![h] = HookStarted(th.id, "stop")]
          /\ ct' = [ct EXCEPT ![th.id].state = "STOPPED"]
          /\ UNCHANGED <<lxcContainerOperations, ops>>
       \/ /\ ct[th.id].state = "STOPPED"
          /\ threads' = [threads EXCEPT ![t] = [th EXCEPT !.at = "wait"]]
          /\ UNCHANGED <<lxcContainerOperations, ops, ct>>
    /\ UNCHANGED <<idmapVars, deleteVars, lifeVars, updateVars, laterVars>>

\* "err = op.Wait(); if err != nil && c.IsRunning() { return err }; return nil".
\* Wait is "<-op.chanDone; return op.err".
Wait(t) ==
    LET th == threads[t] IN
    /\ th.at = "wait"
    /\ ops[th.op].closed
    /\ threads' = [threads EXCEPT ![t] = Finish(t, th, "none")]
    /\ UNCHANGED <<lxcContainerOperations, ops, ct>>
    /\ UNCHANGED <<idmapVars, deleteVars, lifeVars, updateVars, laterVars>>

\* ------------------------------------------------------------------------
\* OnStop, the post-stop hook
\* ------------------------------------------------------------------------

\* The guest stops or reboots by itself; the runtime runs the post-stop hook.
GuestStop(target) ==
    /\ target \in {"stop", "reboot"}
    /\ \E c \in Containers, h \in IdleHooks :
          /\ ct[c].state = "RUNNING"
          /\ ct' = [ct EXCEPT ![c].state = "STOPPED"]
          /\ threads' = [threads EXCEPT ![h] = HookStarted(c, target)]
    /\ UNCHANGED <<lxcContainerOperations, ops>>
    /\ UNCHANGED <<idmapVars, deleteVars, lifeVars, updateVars, laterVars>>

\* "op, _ := c.getOperation(""); if op != nil && op.action != "stop" { return error }".
OnStopGet(t) ==
    LET th == threads[t]
        o == lxcContainerOperations[th.id]
    IN  /\ th.at = "onstop_get"
        /\ threads' = [threads EXCEPT ![t] =
              IF o # Nil /\ ops[o].action # "stop"
              THEN Finish(t, th, "none")
              ELSE [th EXCEPT !.at = "onstop_run", !.hop = o]]
        /\ UNCHANGED <<lxcContainerOperations, ops, ct>>
        /\ UNCHANGED <<idmapVars, deleteVars, lifeVars, updateVars, laterVars>>

\* "c.StorageStop()" fails: "if op != nil { op.Done(err) }; return err".
OnStopStorageFail(t) ==
    LET th == threads[t] IN
    /\ th.at = "onstop_run"
    /\ threads' = [threads EXCEPT ![t] = Finish(t, th, "none")]
    /\ IF th.hop # Nil
       THEN /\ ops' = Done(th.hop, "err").ops
            /\ lxcContainerOperations' = Done(th.hop, "err").reg
       ELSE UNCHANGED <<lxcContainerOperations, ops>>
    /\ UNCHANGED ct
    /\ UNCHANGED <<idmapVars, deleteVars, lifeVars, updateVars, laterVars>>

\* The deferred "op.Done(err)" of OnStop's goroutine, registered only
\* "if op != nil"; err is nil when the defer statement evaluates it.
DeferredDone(hop) ==
    IF hop # Nil
    THEN /\ ops' = Done(hop, "nil").ops
         /\ lxcContainerOperations' = Done(hop, "nil").reg
    ELSE UNCHANGED <<lxcContainerOperations, ops>>

\* StorageStop succeeded, the power state is recorded and OnStop's goroutine
\* runs: profile unload and device cleanup, then "c.Start(false); return" for
\* a reboot, else the rebalance trigger and "c.Delete()" if the container is
\* ephemeral, and the deferred Done.
OnStopGo(t) ==
    LET th == threads[t] IN
    /\ th.at = "onstop_run"
    /\ IF th.target = "reboot"
       THEN /\ threads' = [threads EXCEPT ![t] = getOperation(t, th, "Start")]
            /\ UNCHANGED <<lxcContainerOperations, ops>>
       ELSE IF ct[th.id].ephemeral
       THEN /\ threads' = [threads EXCEPT ![t] = [th EXCEPT !.call = "Delete", !.at = "delete_body"]]
            /\ UNCHANGED <<lxcContainerOperations, ops>>
       ELSE /\ threads' = [threads EXCEPT ![t] = Finish(t, th, "none")]
            /\ DeferredDone(th.hop)
    /\ UNCHANGED ct
    /\ UNCHANGED <<idmapVars, deleteVars, lifeVars, updateVars, laterVars>>

\* The deferred Done after the Start or the Delete that the goroutine called.
OnStopDefer(t) ==
    LET th == threads[t] IN
    /\ th.at = "onstop_defer"
    /\ DeferredDone(th.hop)
    /\ threads' = [threads EXCEPT ![t] = Finish(t, th, th.ret)]
    /\ UNCHANGED ct
    /\ UNCHANGED <<idmapVars, deleteVars, lifeVars, updateVars, laterVars>>

\* ------------------------------------------------------------------------
\* Update and Delete: neither consults the registry
\* ------------------------------------------------------------------------

\* A request for Update arrives.
CallUpdate(t) ==
    /\ t \in Callers
    /\ threads[t].at = "idle"
    /\ ct[threads[t].id].exists
    /\ threads' = [threads EXCEPT ![t] =
          [IdleThread EXCEPT !.call = "Update", !.at = "update_body"]]
    /\ UNCHANGED <<lxcContainerOperations, ops, ct>>
    /\ UNCHANGED <<idmapVars, deleteVars, lifeVars, updateVars, laterVars>>

\* Update from its validation to its commit or to its revert closure.
UpdateBody(t) ==
    LET th == threads[t] IN
    /\ th.at = "update_body"
    /\ threads' = [threads EXCEPT ![t] = Finish(t, th, "none")]
    /\ UNCHANGED <<lxcContainerOperations, ops, ct>>
    /\ UNCHANGED <<idmapVars, deleteVars, lifeVars, updateVars, laterVars>>

\* A request for Delete arrives.
CallDelete(t) ==
    /\ t \in Callers
    /\ threads[t].at = "idle"
    /\ ct[threads[t].id].exists
    /\ threads' = [threads EXCEPT ![t] =
          [IdleThread EXCEPT !.call = "Delete", !.at = "delete_body"]]
    /\ UNCHANGED <<lxcContainerOperations, ops, ct>>
    /\ UNCHANGED <<idmapVars, deleteVars, lifeVars, updateVars, laterVars>>

\* Delete: it removes the container, or fails on the way (Part III has the
\* steps).
DeleteBody(t) ==
    LET th == threads[t] IN
    /\ th.at = "delete_body"
    /\ \/ /\ threads' = [threads EXCEPT ![t] = Finish(t, th, "none")]
          /\ UNCHANGED ct
       \/ /\ threads' = [threads EXCEPT ![t] = Finish(t, th, "none")]
          /\ ct' = [ct EXCEPT ![th.id].exists = FALSE]
    /\ UNCHANGED <<lxcContainerOperations, ops>>
    /\ UNCHANGED <<idmapVars, deleteVars, lifeVars, updateVars, laterVars>>

\* ------------------------------------------------------------------------
\* The operation registry and its users as a whole
\* ------------------------------------------------------------------------

ThreadStep(t) ==
    \/ CreateReset(t)
    \/ CreateNew(t)
    \/ StartBody(t)
    \/ StartHookFail(t)
    \/ NestedStop(t)
    \/ StartDefer(t)
    \/ StopBody(t)
    \/ RuntimeShutdown(t)
    \/ Wait(t)
    \/ OnStopGet(t)
    \/ OnStopStorageFail(t)
    \/ OnStopGo(t)
    \/ OnStopDefer(t)
    \/ UpdateBody(t)
    \/ DeleteBody(t)

Request(t) ==
    \/ CallStart(t)
    \/ CallStopOrShutdown(t, "Stop")
    \/ CallStopOrShutdown(t, "Shutdown")
    \/ CallUpdate(t)
    \/ CallDelete(t)

NextOps ==
    \/ \E t \in Threads : Request(t) \/ ThreadStep(t)
    \/ \E o \in OpIds : TimerExpire(o)
    \/ Tick
    \/ GuestStop("stop")
    \/ GuestStop("reboot")

\* ========================================================================
\* Part II: findIdmap, containerLXCCreate, Update
\* ========================================================================

\* The host's sub-id allocation, state.OS.IdmapSet.Idmap[0]: Hostid, Maprange.
HostBase == 1000000
HostRange == 393216
\* "idMapSize = 65536" for an isolated container without security.idmap.size.
IsolatedSize == 65536
\* "offset := state.OS.IdmapSet.Idmap[0].Hostid + 65536".
FirstOffset == 65536
\* The value of security.idmap.size, where a container sets one.
SizeSet == 32768
\* At most this many requests run at the same time.
MaxInFlight == 2
\* A run makes at most this many requests for a creation or an update.
MaxRequests == 4

Names == {"a", "b", "c"}
\* The order in which containerLoadAll returns the containers.
LoadOrder == <<"a", "b", "c">>

\* The configurations a container is created with or updated to: the keys
\* security.privileged, security.idmap.isolated, security.idmap.base and
\* security.idmap.size (0: the key is not set).
Configs ==
    { [priv |-> FALSE, iso |-> TRUE,  base |-> 0, size |-> 0],
      [priv |-> FALSE, iso |-> TRUE,  base |-> 0, size |-> SizeSet],
      [priv |-> FALSE, iso |-> TRUE,  base |-> HostBase + FirstOffset, size |-> 0],
      [priv |-> FALSE, iso |-> FALSE, base |-> 0, size |-> 0],
      [priv |-> TRUE,  iso |-> TRUE,  base |-> 0, size |-> 0] }

NoConfig == [priv |-> FALSE, iso |-> FALSE, base |-> 0, size |-> 0]

\* A row of the containers table with the request that works on it.
\*   st    "absent", "created" (row inserted, containerLXCCreate before
\*         findIdmap), "found" (findIdmap returned, volatile.idmap.base not
\*         yet written), "ready", "updating" (Update after findIdmap, before
\*         its database commit)
\*   cfg   the persisted configuration
\*   vol   the persisted volatile.idmap.base (-1: the key is not set)
\*   nbase the base findIdmap returned to the request in flight
\*   ncfg  the configuration an Update in flight is about to persist
Absent ==
    [st |-> "absent", cfg |-> NoConfig, vol |-> -1, nbase |-> 0, ncfg |-> NoConfig]

\* idmapSize(state, isolatedStr, size); the host's idmap has its two entries.
idmapSize(iso, size) ==
    IF size = 0
    THEN IF iso THEN IsolatedSize ELSE HostRange
    ELSE size

\* The loop of findIdmap over the containers of containerLoadAll: the entries
\* of the other containers that are neither privileged nor non-isolated,
\* "cBase := int64(0)" unless volatile.idmap.base is set, in load order.
RECURSIVE LoadEntries(_, _)
LoadEntries(cName, i) ==
    IF i > Len(LoadOrder) THEN << >>
    ELSE LET n == LoadOrder[i]
             c == cts[n]
             rest == LoadEntries(cName, i + 1)
         IN  IF \/ c.st = "absent"
                \/ n = cName
                \/ c.cfg.priv
                \/ ~c.cfg.iso
             THEN rest
             ELSE <<[Hostid |-> IF c.vol = -1 THEN 0 ELSE c.vol,
                     Maprange |-> idmapSize(c.cfg.iso, c.cfg.size)]>> \o rest

\* sort.Sort(mapentries) with idmap.ByHostid: by Hostid, and for the few
\* entries there are, an insertion sort, which keeps equal ones in order.
RECURSIVE Insert(_, _)
Insert(sorted, e) ==
    IF sorted = << >> THEN <<e>>
    ELSE IF sorted[Len(sorted)].Hostid <= e.Hostid THEN Append(sorted, e)
    ELSE Append(Insert(SubSeq(sorted, 1, Len(sorted) - 1), e), sorted[Len(sorted)])

RECURSIVE SortByHostid(_, _)
SortByHostid(es, k) ==
    IF k = 0 THEN << >> ELSE Insert(SortByHostid(es, k - 1), es[k])

\* "for i := range mapentries { ... }" and the check after it, from the i-th
\* entry on (counted from 1) with the current offset.
RECURSIVE Scan(_, _, _, _)
Scan(e, i, offset, size) ==
    IF i > Len(e)
    THEN IF offset + size < HostBase + HostRange
         THEN [ok |-> TRUE, base |-> offset]
         ELSE [ok |-> FALSE, base |-> 0]
    ELSE IF i = 1
    THEN IF e[1].Hostid < offset + size
         THEN Scan(e, 2, e[1].Hostid + e[1].Maprange, size)
         ELSE [ok |-> TRUE, base |-> offset]
    ELSE IF e[i-1].Hostid + e[i-1].Maprange > offset
    THEN Scan(e, i + 1, e[i-1].Hostid + e[i-1].Maprange, size)
    ELSE IF e[i-1].Hostid + e[i-1].Maprange + size < e[i].Hostid
    THEN [ok |-> TRUE, base |-> e[i-1].Hostid + e[i-1].Maprange]
    ELSE Scan(e, i + 1, e[i].Hostid + e[i].Maprange, size)

\* findIdmap(state, cName, isolated, configBase, configSize, rawIdmap) with an
\* empty raw.idmap: the base it returns, or the "Not enough uid/gid" error.
\* The part from containerLoadAll on runs under idmapLock.
findIdmap(cName, cfg) ==
    IF ~cfg.iso THEN [ok |-> TRUE, base |-> 0]
    ELSE IF cfg.base # 0 THEN [ok |-> TRUE, base |-> cfg.base]
    ELSE LET es == LoadEntries(cName, 1) IN
         Scan(SortByHostid(es, Len(es)), 1, HostBase + FirstOffset,
              idmapSize(cfg.iso, cfg.size))

\* "base := int64(0); if !c.IsPrivileged() { idmap, base, err = findIdmap(...) }".
PlanIdmap(n, cfg) ==
    IF cfg.priv THEN [ok |-> TRUE, base |-> 0] ELSE findIdmap(n, cfg)

InFlightNames == {n \in Names : cts[n].st \in {"created", "found", "updating"}}

\* A request starts; it is not alone if another one is in flight.
Begin ==
    /\ Cardinality(InFlightNames) < MaxInFlight
    /\ requests < MaxRequests
    /\ requests' = requests + 1
    /\ serial' = (serial /\ InFlightNames = {})

\* The row of a new container is inserted and containerLXCCreate is called
\* with its args.
CreateRecord(n, cfg) ==
    /\ cts[n].st = "absent"
    /\ Begin
    /\ cts' = [cts EXCEPT ![n] = [Absent EXCEPT !.st = "created", !.cfg = cfg]]
    /\ UNCHANGED <<opVars, deleteVars, lifeVars, updateVars, laterVars>>

\* containerLXCCreate, "Setup initial idmap config": on an error "c.Delete()"
\* removes the row again.
CreateFindIdmap(n) ==
    LET r == PlanIdmap(n, cts[n].cfg) IN
    /\ cts[n].st = "created"
    /\ cts' = [cts EXCEPT ![n] =
          IF r.ok THEN [@ EXCEPT !.st = "found", !.nbase = r.base] ELSE Absent]
    /\ UNCHANGED <<opVars, serial, requests, deleteVars, lifeVars, updateVars, laterVars>>

\* containerLXCCreate, c.VolatileSet({"volatile.idmap.base": base}).
CreateVolatileSet(n) ==
    /\ cts[n].st = "found"
    /\ cts' = [cts EXCEPT ![n] =
          [@ EXCEPT !.st = "ready", !.vol = cts[n].nbase, !.nbase = 0]]
    /\ UNCHANGED <<opVars, serial, requests, deleteVars, lifeVars, updateVars, laterVars>>

\* Update with a change of one of the idmap keys, up to the new
\* volatile.idmap.base in c.localConfig; an error of findIdmap ends the Update
\* and its undo restores the old configuration.
UpdateFindIdmap(n, cfg) ==
    LET r == PlanIdmap(n, cfg) IN
    /\ cts[n].st = "ready"
    /\ cfg # cts[n].cfg
    /\ Begin
    /\ cts' = [cts EXCEPT ![n] =
          IF r.ok THEN [@ EXCEPT !.st = "updating", !.nbase = r.base, !.ncfg = cfg] ELSE @]
    /\ UNCHANGED <<opVars, deleteVars, lifeVars, updateVars, laterVars>>

\* Update's database transaction writes the new configuration with its
\* volatile.idmap.base; or a later step of Update fails and nothing is written.
UpdateCommit(n) ==
    /\ cts[n].st = "updating"
    /\ \/ cts' = [cts EXCEPT ![n] =
             [Absent EXCEPT !.st = "ready", !.cfg = cts[n].ncfg, !.vol = cts[n].nbase]]
       \/ cts' = [cts EXCEPT ![n] = [@ EXCEPT !.st = "ready", !.nbase = 0, !.ncfg = NoConfig]]
    /\ UNCHANGED <<opVars, serial, requests, deleteVars, lifeVars, updateVars, laterVars>>

\* Delete removes the container's row.
DeleteRecord(n) ==
    /\ cts[n].st = "ready"
    /\ cts' = [cts EXCEPT ![n] = Absent]
    /\ UNCHANGED <<opVars, serial, requests, deleteVars, lifeVars, updateVars, laterVars>>

NextIdmap ==
    \E n \in Names :
        \/ \E cfg \in Configs : CreateRecord(n, cfg)
        \/ CreateFindIdmap(n)
        \/ CreateVolatileSet(n)
        \/ \E cfg \in Configs : UpdateFindIdmap(n, cfg)
        \/ UpdateCommit(n)
        \/ DeleteRecord(n)

\* No container exists yet.
InitIdmap ==
    /\ cts = [n \in Names |-> Absent]
    /\ serial = TRUE
    /\ requests = 0

\* ========================================================================
\* Part III: Delete
\* ========================================================================

\* How many snapshots and backups the container has at most.
MaxSnapshots == 2
MaxBackups == 1

\* What Delete is there to remove: the container's snapshots, its backups,
\* the device nodes and mounts left under its devices path, its storage
\* volume, its database record and the pool's volume record.
Remains(w) ==
    [snapshots |-> w.snapshots, backups |-> w.backups, devNodes |-> w.devNodes,
     volume |-> w.volume, dbRecord |-> w.dbRecord, poolRecord |-> w.poolRecord]

\* The instance and the Delete that runs on it.
\*   snapshot   c.IsSnapshot()
\*   protect    shared.IsTrue(c.expandedConfig["security.protection.delete"])
\*   importing  the ".importing" marker of "lxd import" exists
\*   storage    c.storage != nil after c.initStorage()
\*   pc, ret    the place in Delete and what the last Delete returned
\*   before     Remains at the time Delete was called last
InstanceAtRest ==
    [snapshot |-> FALSE, protect |-> FALSE, importing |-> FALSE, storage |-> TRUE,
     snapshots |-> 0, backups |-> 0, devNodes |-> FALSE, volume |-> TRUE,
     dbRecord |-> TRUE, poolRecord |-> TRUE, pc |-> "idle", ret |-> "none",
     before |-> [snapshots |-> 0, backups |-> 0, devNodes |-> FALSE,
                 volume |-> TRUE, dbRecord |-> TRUE, poolRecord |-> TRUE]]

\* An instance that exists: a container with its snapshots and backups, or a
\* snapshot, which has none of its own; a snapshot carries the configuration
\* of its container, the protection key included.
InitDelete ==
    \E snap \in BOOLEAN, prot \in BOOLEAN, imp \in BOOLEAN,
       ns \in 0..MaxSnapshots, nb \in 0..MaxBackups, dn \in BOOLEAN, vol \in BOOLEAN :
        /\ snap => (ns = 0 /\ nb = 0)
        /\ world = [InstanceAtRest EXCEPT
                       !.snapshot = snap, !.protect = prot, !.importing = imp,
                       !.snapshots = ns, !.backups = nb, !.devNodes = dn,
                       !.volume = vol,
                       !.before = [snapshots |-> ns, backups |-> nb, devNodes |-> dn,
                                   volume |-> vol, dbRecord |-> TRUE, poolRecord |-> TRUE]]

\* A Delete that never refuses: the variant that C10 must tell from the code.
ProtectedNever(w) == FALSE

\* "shared.IsTrue(c.expandedConfig["security.protection.delete"]) && !c.IsSnapshot()".
Protected(w) == w.protect /\ ~w.snapshot

\* Delete returns r.
Return(w, r) == [w EXCEPT !.pc = "returned", !.ret = r]

\* Delete is called on an instance that exists: the protection check, the
\* look for the import marker and c.initStorage(), which may leave c.storage nil.
DeleteCheck ==
    /\ world.pc \in {"idle", "returned"}
    /\ world.dbRecord
    /\ LET w == [world EXCEPT !.before = Remains(world), !.ret = "none"] IN
       IF Protected(w)
       THEN world' = Return(w, "protected")
       ELSE \E st \in BOOLEAN :
               world' = [w EXCEPT !.storage = st,
                                  !.pc = IF w.snapshot THEN "snapshot_delete"
                                         ELSE "delete_snapshots"]
    /\ UNCHANGED <<opVars, idmapVars, lifeVars, updateVars, laterVars>>

\* "if c.IsSnapshot()": c.storage.ContainerSnapshotDelete(c), unless there is
\* no storage or this is an import.
DeleteSnapshotVolume ==
    /\ world.pc = "snapshot_delete"
    /\ IF world.storage /\ ~world.importing
       THEN \/ world' = [world EXCEPT !.volume = FALSE, !.pc = "remove_record"]
            \/ world' = Return(world, "err")
       ELSE world' = [world EXCEPT !.pc = "remove_record"]
    /\ UNCHANGED <<opVars, idmapVars, lifeVars, updateVars, laterVars>>

\* containerDeleteSnapshots: all snapshots are deleted, or it fails with some
\* of them deleted.
DeleteSnapshots ==
    /\ world.pc = "delete_snapshots"
    /\ \/ world' = [world EXCEPT !.snapshots = 0, !.pc = "delete_backups"]
       \/ \E k \in 0..world.snapshots :
             world' = Return([world EXCEPT !.snapshots = k], "err")
    /\ UNCHANGED <<opVars, idmapVars, lifeVars, updateVars, laterVars>>

\* c.Backups() and "backup.Delete()" for each.
DeleteBackups ==
    /\ world.pc = "delete_backups"
    /\ \/ world' = [world EXCEPT !.backups = 0, !.pc = "cleanup"]
       \/ \E k \in 0..world.backups :
             world' = Return([world EXCEPT !.backups = k], "err")
    /\ UNCHANGED <<opVars, idmapVars, lifeVars, updateVars, laterVars>>

\* c.cleanup(): leftover mounts, security profiles, the devices path.
Cleanup ==
    /\ world.pc = "cleanup"
    /\ world' = [world EXCEPT !.devNodes = FALSE, !.pc = "delete_storage"]
    /\ UNCHANGED <<opVars, idmapVars, lifeVars, updateVars, laterVars>>

\* "Delete the container from disk": c.storage.ContainerDelete(c) if there is
\* storage, this is no import and the container's path exists.
DeleteStorage ==
    /\ world.pc = "delete_storage"
    /\ IF world.storage /\ ~world.importing /\ world.volume
       THEN \/ world' = [world EXCEPT !.volume = FALSE, !.pc = "remove_devices"]
            \/ world' = Return(world, "err")
       ELSE world' = [world EXCEPT !.pc = "remove_devices"]
    /\ UNCHANGED <<opVars, idmapVars, lifeVars, updateVars, laterVars>>

\* c.maasDelete() and c.deviceRemove for every expanded device.
RemoveDevices ==
    /\ world.pc = "remove_devices"
    /\ \/ world' = [world EXCEPT !.pc = "remove_record"]
       \/ world' = Return(world, "err")
    /\ UNCHANGED <<opVars, idmapVars, lifeVars, updateVars, laterVars>>

\* c.state.Cluster.ContainerRemove(c.project, c.Name()).
RemoveRecord ==
    /\ world.pc = "remove_record"
    /\ \/ world' = [world EXCEPT !.dbRecord = FALSE, !.pc = "remove_pool_volume"]
       \/ world' = Return(world, "err")
    /\ UNCHANGED <<opVars, idmapVars, lifeVars, updateVars, laterVars>>

\* "if c.storage != nil": StoragePoolVolumeDelete; then Delete returns nil.
RemovePoolVolume ==
    /\ world.pc = "remove_pool_volume"
    /\ IF world.storage
       THEN \/ world' = Return([world EXCEPT !.poolRecord = FALSE], "nil")
            \/ world' = Return(world, "err")
       ELSE world' = Return(world, "nil")
    /\ UNCHANGED <<opVars, idmapVars, lifeVars, updateVars, laterVars>>

NextDelete ==
    \/ DeleteCheck
    \/ DeleteSnapshotVolume
    \/ DeleteSnapshots
    \/ DeleteBackups
    \/ Cleanup
    \/ DeleteStorage
    \/ RemoveDevices
    \/ RemoveRecord
    \/ RemovePoolVolume

\* ========================================================================
\* Part IV: Start, Stop, Freeze and Unfreeze of one container, one request
\* at a time
\* ========================================================================

\* startCommon returns at most this many post-start hooks.
MaxHooks == 2

\* shared.IsTrue on the values a device key takes here.
IsTrue(v) == v = "true"

\* The expanded device of the container, besides its root disk.
\*   type      "none" (no such device), "disk" (path other than "/"),
\*             "unix-char"
\*   pool      disk: the pool key
\*   source    disk: a host path, or with a pool the name of a volume;
\*             unix-char: the device's path on the host
\*   optional  disk: the optional key ("": not set)
\*   required  unix-char: the required key ("": not set)
\*   nums      unix-char: which of major and minor are set
\*   present   the source (with a pool: the mounted volume) exists on the host
NoDevice ==
    [type |-> "none", pool |-> "", source |-> "", optional |-> "",
     required |-> "", nums |-> "none", present |-> FALSE]

DiskDevices ==
    {[type |-> "disk", pool |-> p, source |-> "src", optional |-> o,
      required |-> "", nums |-> "none", present |-> x] :
        p \in {"", "p0"}, o \in {"", "true", "false"}, x \in BOOLEAN}

UnixDevices ==
    {[type |-> "unix-char", pool |-> "", source |-> "src", optional |-> "",
      required |-> r, nums |-> n, present |-> x] :
        r \in {"", "true", "false"}, n \in {"none", "one", "both"}, x \in BOOLEAN}

Devices == {NoDevice} \cup DiskDevices \cup UnixDevices

\* The container, its host and the request that runs on it.
\*   state      the runtime state of the container
\*   stateful   c.stateful
\*   dbStateful the stateful flag of the database row
\*   stateDir   c.StatePath() exists
\*   removable  os.RemoveAll(c.StatePath()) works on this host
\*   freezer    c.state.OS.CGroupFreezerController
\*   dev        the device
\*   nhooks     the number of post-start hooks startCommon returns
\*   reg        the action of the registered operation ("none": none)
\*   opErr      what Start's operation was completed with ("live": not yet)
\*   call, pc   the request and the place in it; arg: the stateful argument
\*   ret        what the last request returned
\*   forked     this Start has started the runtime
\*   hadState, hadDir   c.stateful and the state directory when Start was called
\*   migrateErr this Start's c.Migrate returned an error
\*   failedHook a post-start hook of this Start has failed
\*   hookAfterFail  a hook of this Start was run after one had failed
\*   stopFailed the runtime refused the stop that this Start asked for
LifeAtRest ==
    [state |-> "STOPPED", stateful |-> FALSE, dbStateful |-> FALSE,
     stateDir |-> FALSE, removable |-> TRUE, freezer |-> TRUE, dev |-> NoDevice,
     nhooks |-> 0, reg |-> "none", opErr |-> "live", call |-> "none",
     pc |-> "idle", arg |-> FALSE, ret |-> "none", forked |-> FALSE,
     hadState |-> FALSE, hadDir |-> FALSE, migrateErr |-> FALSE,
     failedHook |-> FALSE, hookAfterFail |-> FALSE, stopFailed |-> FALSE]

\* A stopped container as a stop or a failed stop left it, on some host.
InitLife ==
    \E sf \in BOOLEAN, sd \in BOOLEAN, rm \in BOOLEAN, fz \in BOOLEAN,
       d \in Devices, n \in 0..MaxHooks :
        life = [LifeAtRest EXCEPT !.stateful = sf, !.dbStateful = sf,
                                  !.stateDir = sd, !.removable = rm,
                                  !.freezer = fz, !.dev = d, !.nhooks = n]

\* c.IsRunning(): "state != BROKEN && state != STOPPED".
IsRunning(l) == l.state # "BROKEN" /\ l.state # "STOPPED"

\* A container that never counts as frozen: the variant that C15 must tell
\* from the code.
IsFrozenNever(l) == FALSE

\* c.IsFrozen(): c.State() == "FROZEN".
IsFrozen(l) == l.state = "FROZEN"

\* A host on which every path exists: the variant that C20 must tell from the
\* code.
PathExistsAlways(d) == TRUE

\* shared.PathExists on the source of the device.
PathExists(d) == d.present

\* os.RemoveAll(c.StatePath()): the container afterwards.
RemoveAll(l) == IF l.removable THEN [l EXCEPT !.stateDir = FALSE] ELSE l

\* "Sanity checks for devices" of startCommon: TRUE if the device passes.
SanityCheck(d) ==
    CASE d.type = "disk" ->
            ~(d.pool = "" /\ d.source # "" /\ ~IsTrue(d.optional) /\ ~PathExists(d))
      [] d.type = "unix-char" ->
            IF d.source # "" /\ d.required # "" /\ ~IsTrue(d.required)
            THEN TRUE
            ELSE ~(d.source # "" /\ d.nums = "none" /\ ~PathExists(d))
      [] OTHER -> TRUE

\* device.UnixDeviceCreate with defaultMode: without major and minor it takes
\* them from the device on the host, with one of the two it fails, with both
\* it makes the node from the numbers.
UnixDeviceCreate(d) ==
    CASE d.nums = "none" -> PathExists(d)
      [] d.nums = "one" -> FALSE
      [] OTHER -> TRUE

\* "Create the devices" of startCommon and addDiskDevices: TRUE if startCommon
\* goes on.  A unix device that cannot be created stops it unless the device
\* is not required; createDiskDevice wants the source unless the disk is
\* optional.
CreateDevices(d) ==
    CASE d.type = "unix-char" ->
            UnixDeviceCreate(d) \/ ~(d.required = "" \/ IsTrue(d.required))
      [] d.type = "disk" -> PathExists(d) \/ IsTrue(d.optional)
      [] OTHER -> TRUE

\* startCommon can succeed: the container is not running and the device
\* passes both loops.
startCommonPasses(l) ==
    /\ ~IsRunning(l)
    /\ SanityCheck(l.dev)
    /\ CreateDevices(l.dev)

\* The end of a successful startCommon: "If starting stateless, wipe state".
startCommon(l) ==
    IF ~l.stateful /\ l.stateDir THEN RemoveAll(l) ELSE l

\* op.Done(e) on Start's operation.
StartOpDone(l, e) ==
    IF l.reg = "start" /\ l.opErr = "live"
    THEN [l EXCEPT !.reg = "none", !.opErr = e]
    ELSE l

\* Start returns r; its deferred "op.Done(nil)" runs.
StartReturn(l, r) == [StartOpDone(l, "nil") EXCEPT !.pc = "idle", !.ret = r]

\* c.Stop(false) called from within Start or Migrate: the containers it can
\* leave.  "already stopped" if the container is not running; busy if an
\* operation is registered that cannot be joined (the start operation);
\* otherwise the runtime stops the container or refuses.
StopFromStart(l) ==
    IF ~IsRunning(l) \/ l.reg = "start"
    THEN {l}
    ELSE {[l EXCEPT !.state = "STOPPED"], [l EXCEPT !.stopFailed = TRUE]}

\* runHooks(postStartHooks): hook k fails (0: none does); the hooks after it
\* do not run.
runHooks(l, k) ==
    [l EXCEPT !.hookAfterFail = @ \/ (l.failedHook /\ l.nhooks > 0),
              !.failedHook = @ \/ k > 0]

\* A request for Start(stateful): createOperation("start", false, false) and
\* "defer op.Done(nil)".
LifeStart(stateful) ==
    /\ life.pc = "idle"
    /\ life' = [life EXCEPT !.call = "Start", !.pc = "start_common", !.arg = stateful,
                            !.ret = "none", !.reg = "start", !.opErr = "live",
                            !.forked = FALSE, !.hadState = life.stateful,
                            !.hadDir = life.stateDir, !.migrateErr = FALSE,
                            !.failedHook = FALSE, !.hookAfterFail = FALSE,
                            !.stopFailed = FALSE]
    /\ UNCHANGED <<opVars, idmapVars, deleteVars, updateVars, laterVars>>

\* setupSharedMounts, startCommon and StorageStart: one of them fails, or
\* startCommon passes the device checks and Start goes on.
LifeStartCommon ==
    /\ life.pc = "start_common"
    /\ \/ life' = StartReturn(life, "err")
       \/ /\ startCommonPasses(life)
          /\ life' = [startCommon(life) EXCEPT
                         !.pc = IF life.arg THEN "restore" ELSE "stateless"]
    /\ UNCHANGED <<opVars, idmapVars, deleteVars, updateVars, laterVars>>

\* "If stateful, restore now": without state to restore Start fails; else
\* c.Migrate with MIGRATE_RESTORE, which runs startCommon again, forkmigrate
\* and, if that worked, the post-start hooks, with "c.Stop(false)" if one
\* fails.  Start returns Migrate's error only if the container is not running.
LifeRestore ==
    /\ life.pc = "restore"
    /\ IF ~life.stateful
       THEN life' = StartReturn(life, "no_state")
       ELSE \/ life' = StartReturn([life EXCEPT !.migrateErr = TRUE], "migrate_err")
            \/ life' = [life EXCEPT !.state = "RUNNING", !.forked = TRUE,
                                    !.migrateErr = TRUE, !.pc = "restored"]
            \/ \E k \in 0..life.nhooks :
                  LET l == runHooks([life EXCEPT !.state = "RUNNING", !.forked = TRUE], k)
                  IN  IF k = 0
                      THEN life' = [l EXCEPT !.pc = "restored"]
                      ELSE \E s \in StopFromStart(l) :
                              life' = IF IsRunning(s)
                                      THEN [s EXCEPT !.migrateErr = TRUE, !.pc = "restored"]
                                      ELSE StartReturn([s EXCEPT !.migrateErr = TRUE], "migrate_err")
    /\ UNCHANGED <<opVars, idmapVars, deleteVars, updateVars, laterVars>>

\* After the restore: "os.RemoveAll(c.StatePath()); c.stateful = false" and
\* ContainerSetStateful(c.id, false), whose failure Start returns.
LifeRestored ==
    /\ life.pc = "restored"
    /\ LET l == [RemoveAll(life) EXCEPT !.stateful = FALSE] IN
       \/ life' = StartReturn(l, "err")
       \/ life' = [l EXCEPT !.dbStateful = FALSE, !.pc = "hooks"]
    /\ UNCHANGED <<opVars, idmapVars, deleteVars, updateVars, laterVars>>

\* "stateless start required when we have state, let's delete it": the
\* failure of os.RemoveAll and of ContainerSetStateful is returned.
LifeStateless ==
    /\ life.pc = "stateless"
    /\ IF life.stateful
       THEN IF life.stateDir /\ ~life.removable
            THEN life' = StartReturn(life, "err")
            ELSE LET l == [RemoveAll(life) EXCEPT !.stateful = FALSE] IN
                 \/ life' = StartReturn(l, "err")
                 \/ life' = [l EXCEPT !.dbStateful = FALSE, !.pc = "fork"]
       ELSE life' = [life EXCEPT !.pc = "fork"]
    /\ UNCHANGED <<opVars, idmapVars, deleteVars, updateVars, laterVars>>

\* forkstart: "if err != nil && !c.IsRunning() { return err }".
LifeFork ==
    /\ life.pc = "fork"
    /\ \/ life' = StartReturn(life, "err")
       \/ life' = [life EXCEPT !.state = "RUNNING", !.forked = TRUE, !.pc = "hooks"]
    /\ UNCHANGED <<opVars, idmapVars, deleteVars, updateVars, laterVars>>

\* "err = c.runHooks(postStartHooks)": on an error "op.Done(err);
\* c.Stop(false); return err", else Start returns nil.
LifeHooks ==
    /\ life.pc = "hooks"
    /\ \E k \in 0..life.nhooks :
          LET l == runHooks(life, k) IN
          IF k = 0
          THEN life' = StartReturn(l, "nil")
          ELSE \E s \in StopFromStart(StartOpDone(l, "hook_err")) :
                  life' = StartReturn(s, "hook_err")
    /\ UNCHANGED <<opVars, idmapVars, deleteVars, updateVars, laterVars>>

\* A request for Stop(false) between two other requests, with its post-stop
\* hook: "already stopped", or a state directory that exists is removed and
\* the runtime stops the container or fails.
LifeStop ==
    /\ life.pc = "idle"
    /\ LET l == [life EXCEPT !.call = "Stop"] IN
       IF ~IsRunning(l)
       THEN life' = [l EXCEPT !.ret = "already_stopped"]
       ELSE LET m == IF l.stateDir THEN RemoveAll(l) ELSE l IN
            \/ life' = [m EXCEPT !.ret = "err"]
            \/ life' = [m EXCEPT !.state = "STOPPED", !.ret = "nil"]
    /\ UNCHANGED <<opVars, idmapVars, deleteVars, updateVars, laterVars>>

\* A request for Freeze().
LifeFreeze ==
    /\ life.pc = "idle"
    /\ LET l == [life EXCEPT !.call = "Freeze"] IN
       IF ~IsRunning(l)
       THEN life' = [l EXCEPT !.ret = "not_running"]
       ELSE IF ~l.freezer
       THEN life' = [l EXCEPT !.ret = "nil"]
       ELSE IF IsFrozen(l)
       THEN life' = [l EXCEPT !.ret = "already_frozen"]
       ELSE \/ life' = [l EXCEPT !.ret = "err"]
            \/ life' = [l EXCEPT !.state = "FROZEN", !.ret = "nil"]
    /\ UNCHANGED <<opVars, idmapVars, deleteVars, updateVars, laterVars>>

\* A request for Unfreeze().
LifeUnfreeze ==
    /\ life.pc = "idle"
    /\ LET l == [life EXCEPT !.call = "Unfreeze"] IN
       IF ~IsRunning(l)
       THEN life' = [l EXCEPT !.ret = "not_running"]
       ELSE IF ~l.freezer
       THEN life' = [l EXCEPT !.ret = "nil"]
       ELSE IF ~IsFrozen(l)
       THEN life' = [l EXCEPT !.ret = "already_running"]
       ELSE \/ life' = [l EXCEPT !.ret = "err"]
            \/ life' = [l EXCEPT !.state = "RUNNING", !.ret = "nil"]
    /\ UNCHANGED <<opVars, idmapVars, deleteVars, updateVars, laterVars>>

NextLife ==
    \/ LifeStart(TRUE)
    \/ LifeStart(FALSE)
    \/ LifeStartCommon
    \/ LifeRestore
    \/ LifeRestored
    \/ LifeStateless
    \/ LifeFork
    \/ LifeHooks
    \/ LifeStop
    \/ LifeFreeze
    \/ LifeUnfreeze

\* ========================================================================
\* Part V: Update of one container, one request at a time
\* ========================================================================

\* The number of Update requests.
MaxUpdates == 2

\* The value of a key that a map does not have.
NoKey == "<none>"

\* The config keys.
Keys ==
    {"volatile.idmap.next", "volatile.idmap.base", "volatile.apply_quota",
     "volatile.eth0.hwaddr", "image.os", "security.privileged"}

\* strings.HasPrefix(k, "volatile.") || strings.HasPrefix(k, "image.")
ReadOnlyKeys == Keys \ {"security.privileged"}

\* The values a request gives to a key.
Values == {NoKey, "", "x"}

\* m[k] of a Go map: the empty string for a key that is not there.
Get(m, k) == IF m[k] = NoKey THEN "" ELSE m[k]

\* The device names and the devices.
DevNames == {"root", "eth0"}

NoDev == [type |-> "", path |-> "", pool |-> "", size |-> ""]

DeviceKinds ==
    {[type |-> "disk", path |-> "/", pool |-> p, size |-> s] :
        p \in {"", "p0", "p1"}, s \in {"", "1GB"}}
    \cup {[type |-> "disk", path |-> "/data", pool |-> "", size |-> ""],
          [type |-> "nic", path |-> "", pool |-> "", size |-> ""]}

\* The one profile, "default": a privileged container with a root disk on p0.
DefaultConfig == [k \in Keys |-> IF k = "security.privileged" THEN "true" ELSE NoKey]

DefaultDevices ==
    [n \in DevNames |->
        IF n = "root"
        THEN [type |-> "disk", path |-> "/", pool |-> "p0", size |-> ""]
        ELSE NoDev]

HasDefault(profiles) == \E i \in DOMAIN profiles : profiles[i] = "default"

\* db.ProfilesExpandConfig: the profiles' config, the local config on top.
ProfilesExpandConfig(local, profiles) ==
    [k \in Keys |->
        IF local[k] # NoKey THEN local[k]
        ELSE IF HasDefault(profiles) THEN DefaultConfig[k] ELSE NoKey]

\* db.ProfilesExpandDevices: the profiles' devices, the local devices on top.
ProfilesExpandDevices(local, profiles) ==
    [n \in DevNames |->
        IF local[n] # NoDev THEN local[n]
        ELSE IF HasDefault(profiles) THEN DefaultDevices[n] ELSE NoDev]

\* c.expandConfig(nil) and c.expandDevices(nil).
expandConfig(c) ==
    [c EXCEPT !.expandedConfig = ProfilesExpandConfig(c.localConfig, c.profiles),
              !.expandedDevices = ProfilesExpandDevices(c.localDevices, c.profiles)]

\* The container as created: profile "default", no local device, privileged.
InstanceAsCreated ==
    expandConfig(
        [description |-> "d0", architecture |-> 1, ephemeral |-> FALSE,
         expiryDate |-> 0,
         localConfig |-> [k \in Keys |->
                            CASE k = "volatile.idmap.next" -> "[]"
                              [] k = "volatile.idmap.base" -> "0"
                              [] k = "image.os" -> "x"
                              [] OTHER -> NoKey],
         expandedConfig |-> DefaultConfig,
         localDevices |-> [n \in DevNames |-> NoDev],
         expandedDevices |-> DefaultDevices,
         profiles |-> <<"default">>])

\* The row of the container in the database.
Persisted(c) ==
    [description |-> c.description, architecture |-> c.architecture,
     ephemeral |-> c.ephemeral, expiryDate |-> c.expiryDate,
     config |-> c.localConfig, devices |-> c.localDevices,
     profiles |-> c.profiles]

\* No request yet.
NoArgs ==
    [description |-> "", architecture |-> 0, ephemeral |-> FALSE, expiryDate |-> 0,
     config |-> [k \in Keys |-> NoKey], devices |-> [n \in DevNames |-> NoDev],
     profiles |-> <<>>, userRequested |-> FALSE]

\*   c        the container in memory
\*   db       its row in the database
\*   pre, predb   both as they were when the last Update was called
\*   args     the arguments of the last Update
\*   ret      what it returned
\*   n        the number of Updates so far
UpdateAtRest ==
    [c |-> InstanceAsCreated, db |-> Persisted(InstanceAsCreated),
     pre |-> InstanceAsCreated, predb |-> Persisted(InstanceAsCreated),
     args |-> NoArgs, ret |-> "none", n |-> 0]

\* The arguments of an Update: what the container has, with one thing changed
\* at most.
ArgsOf(c) ==
    LET same == [description |-> c.description, architecture |-> c.architecture,
                 ephemeral |-> c.ephemeral, expiryDate |-> c.expiryDate,
                 config |-> c.localConfig, devices |-> c.localDevices,
                 profiles |-> c.profiles, userRequested |-> TRUE]
    IN  {same}
        \cup {[same EXCEPT !.config[k] = v] : k \in Keys, v \in Values}
        \cup {[same EXCEPT !.devices[n] = d] : n \in DevNames, d \in DeviceKinds \cup {NoDev}}
        \cup {[same EXCEPT !.profiles = p] : p \in {<<>>, <<"default">>}}
        \cup {[same EXCEPT !.description = "d1", !.architecture = 2,
                           !.ephemeral = TRUE, !.expiryDate = 1]}

\* The places where Update can fail for a reason outside the model.
FailPoints == {"none", "validate", "expand", "idmap", "quota", "live", "db", "backup"}

\* containerValidDevices: of the expanded devices it wants exactly one to be
\* a disk with path "/".
containerValidDevices(devices, expanded) ==
    expanded =>
        Cardinality({n \in DevNames :
            devices[n].type = "disk" /\ devices[n].path = "/"}) = 1

\* "Check that volatile and image keys weren't modified": a key of the
\* request whose value is not the local one, or a local key whose value is
\* not the requested one.
ReadOnlyModified(localConfig, config) ==
    \/ \E k \in ReadOnlyKeys : config[k] # NoKey /\ Get(localConfig, k) # config[k]
    \/ \E k \in ReadOnlyKeys : localConfig[k] # NoKey /\ Get(config, k) # localConfig[k]

\* A revert closure that forgets the expanded config: the variant that C17
\* must tell from the code.
undoChangesButExpanded(c, old) == [old EXCEPT !.expandedConfig = c.expandedConfig]

\* The deferred revert closure.
undoChanges(c, old) ==
    [c EXCEPT !.description = old.description, !.architecture = old.architecture,
              !.ephemeral = old.ephemeral, !.expandedConfig = old.expandedConfig,
              !.expandedDevices = old.expandedDevices, !.localConfig = old.localConfig,
              !.localDevices = old.localDevices, !.profiles = old.profiles,
              !.expiryDate = old.expiryDate]

\* "Apply the various changes" and the two expansions.
Apply(c, args) ==
    expandConfig(
        [c EXCEPT !.description = args.description, !.architecture = args.architecture,
                  !.ephemeral = args.ephemeral, !.localConfig = args.config,
                  !.localDevices = args.devices, !.profiles = args.profiles,
                  !.expiryDate = args.expiryDate])

\* "Diff the configurations".
changedConfig(old, c) ==
    {k \in Keys : Get(old.expandedConfig, k) # Get(c.expandedConfig, k)}

\* c.IsPrivileged()
IsPrivileged(c) == IsTrue(Get(c.expandedConfig, "security.privileged"))

\* The new idmap after a change of an idmap key.
Replan(old, c) ==
    IF "security.privileged" \in changedConfig(old, c)
    THEN [c EXCEPT !.localConfig["volatile.idmap.next"] =
                        IF IsPrivileged(c) THEN "[]" ELSE "[map]",
                   !.localConfig["volatile.idmap.base"] =
                        IF IsPrivileged(c) THEN "0" ELSE "1000000"]
    ELSE c

\* The devices that "Make sure we have a valid root disk device" counts.
RootDisks(devices) ==
    {n \in DevNames :
        devices[n].type = "disk" /\ devices[n].path = "/" /\ devices[n].pool # ""}

\* The pool and the size of the root disk ("" without one).
RootOf(devices) ==
    IF RootDisks(devices) = {} THEN NoDev
    ELSE devices[CHOOSE n \in RootDisks(devices) : TRUE]

\* A check that lets every pool pass: the variant that C19 must tell from the
\* code.
PoolChangedNever(old, c) == FALSE

\* "Check for pool change".
PoolChanged(old, c) ==
    RootOf(old.expandedDevices).pool # RootOf(c.expandedDevices).pool

\* "Deal with quota changes": the quota is set now or left for the next start.
Quota(old, c, later) ==
    IF RootOf(c.expandedDevices).size # RootOf(old.expandedDevices).size /\ later
    THEN [c EXCEPT !.localConfig["volatile.apply_quota"] = RootOf(c.expandedDevices).size]
    ELSE c

\* "Cleanup any leftover volatile entries".
CleanupVolatile(c) ==
    IF c.localConfig["volatile.eth0.hwaddr"] # NoKey
       /\ c.expandedDevices["eth0"].type # "nic"
    THEN [c EXCEPT !.localConfig["volatile.eth0.hwaddr"] = NoKey,
                   !.expandedConfig["volatile.eth0.hwaddr"] = NoKey]
    ELSE c

\* What Update leaves and returns.
Outcome(c, db, ret) == [c |-> c, db |-> db, ret |-> ret]

\* The part of Update after the revert closure is installed.
UpdateArmed(old, db, args, fail, later) ==
    LET c1 == Apply(old, args)
        c2 == Replan(old, c1)
        c3 == Quota(old, c2, later)
        c4 == CleanupVolatile(c3)
        idmapFails == /\ fail = "idmap"
                      /\ "security.privileged" \in changedConfig(old, c1)
                      /\ ~IsPrivileged(c1)
        quotaFails == /\ fail = "quota"
                      /\ ~later
                      /\ RootOf(c2.expandedDevices).size # RootOf(old.expandedDevices).size
    IN  CASE fail = "expand" -> Outcome(undoChanges(c1, old), db, "err")
          [] ~containerValidDevices(c1.expandedDevices, TRUE) ->
                Outcome(undoChanges(c1, old), db, "invalid")
          [] idmapFails -> Outcome(undoChanges(c1, old), db, "err")
          [] Cardinality(RootDisks(c2.expandedDevices)) # 1 ->
                Outcome(undoChanges(c2, old), db, "root")
          [] PoolChanged(old, c2) ->
                Outcome(undoChanges(c2, old), db, "pool")
          [] quotaFails -> Outcome(undoChanges(c2, old), db, "err")
          [] fail = "live" -> Outcome(undoChanges(c3, old), db, "err")
          [] fail = "db" -> Outcome(undoChanges(c4, old), db, "err")
          [] fail = "backup" -> Outcome(undoChanges(c4, old), Persisted(c4), "err")
          [] OTHER -> Outcome(c4, Persisted(c4), "nil")

\* Update(args, userRequested) on container c with row db.
UpdateOf(c, db, args, fail, later) ==
    CASE fail = "validate" \/ ~containerValidDevices(args.devices, FALSE) ->
            Outcome(c, db, "invalid")
      [] args.userRequested /\ ReadOnlyModified(c.localConfig, args.config) ->
            Outcome(c, db, "readonly")
      [] OTHER -> UpdateArmed(c, db, args, fail, later)

\* A request for Update.
Update ==
    /\ upd.n < MaxUpdates
    /\ \E a \in ArgsOf(upd.c), u \in BOOLEAN, fail \in FailPoints, later \in BOOLEAN :
          LET args == [a EXCEPT !.userRequested = u]
              r == UpdateOf(upd.c, upd.db, args, fail, later)
          IN  upd' = [c |-> r.c, db |-> r.db, pre |-> upd.c, predb |-> upd.db,
                      args |-> args, ret |-> r.ret, n |-> upd.n + 1]
    /\ UNCHANGED <<opVars, idmapVars, deleteVars, lifeVars, laterVars>>

NextUpdate == Update

\* ========================================================================
\* Part VI: Restore of a container from one of its snapshots
\* ========================================================================

\* The snapshots a container is restored from: the local config, devices,
\* profiles and header of the container as created, or of a container that
\* differs from it in one thing.
Snapshots ==
    {[a EXCEPT !.userRequested = FALSE] : a \in ArgsOf(InstanceAsCreated)}

\* Restore(sourceContainer, false) on container c with row db, running or
\* not: what it leaves and returns.  An ephemeral container that runs is made
\* non-ephemeral by a first Update, whose arguments a deferred closure hands
\* to Update again, with the flag set and userRequested true, when Restore
\* returns.  step is the step of Restore that fails, f1, f2 and f3 the places
\* where the three Updates fail.
RestoreOf(c, db, running, snap, step, f1, f2, f3) ==
    LET wasRunning == running
        deferred == running /\ c.ephemeral
        args1 == [description |-> c.description, architecture |-> c.architecture,
                  ephemeral |-> FALSE, expiryDate |-> 0,
                  config |-> c.localConfig, devices |-> c.localDevices,
                  profiles |-> c.profiles, userRequested |-> FALSE]
        u1 == IF deferred THEN UpdateOf(c, db, args1, f1, FALSE)
              ELSE Outcome(c, db, "nil")
        u2 == UpdateOf(u1.c, u1.db, [snap EXCEPT !.expiryDate = 0], f2, FALSE)
        Back(o) ==
            IF deferred
            THEN LET u3 == UpdateOf(o.c, o.db,
                               [args1 EXCEPT !.ephemeral = TRUE, !.userRequested = TRUE],
                               f3, FALSE)
                 IN  [o EXCEPT !.c = u3.c, !.db = u3.db]
            ELSE o
        Result(o, state, ret) ==
            [c |-> o.c, db |-> o.db, state |-> state, ret |-> ret]
    IN  CASE u1.ret # "nil" ->
                Result(u1, "RUNNING", "restore_err")
          [] wasRunning /\ step = "stop" ->
                Back(Result(u1, "RUNNING", "restore_err"))
          [] step = "storage" ->
                Back(Result(u1, "STOPPED", "restore_err"))
          [] u2.ret # "nil" ->
                Back(Result(u2, "STOPPED", "restore_err"))
          [] step = "backup" ->
                Back(Result(u2, "STOPPED", "restore_err"))
          [] wasRunning /\ step = "start" ->
                Back(Result(u2, "STOPPED", "restore_err"))
          [] wasRunning ->
                Back(Result(u2, "RUNNING", "restored"))
          [] OTHER ->
                Back(Result(u2, "STOPPED", "restored"))

\* A request for Restore, the last request on the container.
Restore ==
    /\ upd.n <= MaxUpdates
    /\ \E snap \in Snapshots, step \in {"none", "stop", "storage", "backup", "start"},
          f1 \in {"none", "db"}, f2 \in {"none", "db"}, f3 \in {"none", "db"} :
          LET r == RestoreOf(upd.c, upd.db, IsRunning(life), snap, step, f1, f2, f3)
          IN  /\ upd' = [c |-> r.c, db |-> r.db, pre |-> upd.c, predb |-> upd.db,
                         args |-> snap, ret |-> r.ret, n |-> MaxUpdates + 1]
              /\ life' = [life EXCEPT !.state = r.state,
                                      !.hadState = IsRunning(life)]
    /\ UNCHANGED <<opVars, idmapVars, deleteVars, laterVars>>

\* One Update at most, then the Restore.
NextRestore ==
    \/ upd.n < 1 /\ Update
    \/ Restore

\* A container, running or stopped, as created.
InitRestore ==
    /\ life \in {LifeAtRest, [LifeAtRest EXCEPT !.state = "RUNNING"]}
    /\ upd = UpdateAtRest

\* ========================================================================
\* Part VII: the exit code that Exec reports
\* ========================================================================

\* The exit statuses and the signals of a child.
MaxExitStatus == 255
MaxSignal == 64

\* How the child ended, as cmd.Wait learns it: it exited with status n, a
\* signal n terminated it, or the wait itself failed.
WaitStatuses ==
    {[kind |-> "exited", n |-> n] : n \in 0..MaxExitStatus}
    \cup {[kind |-> "signaled", n |-> n] : n \in 1..MaxSignal}
    \cup {[kind |-> "waiterr", n |-> 0]}

\* syscall.WaitStatus.ExitStatus(): -1 unless the child exited.
ExitStatus(w) == IF w.kind = "exited" THEN w.n ELSE -1

\* The end of Exec with wait: the exit code and whether an error is returned.
\* cmd.Wait returns nil for a child that exited with status 0 and an
\* *exec.ExitError for a child that exited otherwise or was signaled; the
\* ExitError's Sys() is a syscall.WaitStatus, and the code is its ExitStatus().
ExecWait(w) ==
    CASE w.kind = "exited" /\ w.n = 0 -> [code |-> 0, err |-> FALSE]
      [] w.kind = "waiterr" -> [code |-> -1, err |-> TRUE]
      [] OTHER -> [code |-> ExitStatus(w), err |-> FALSE]

\* No Exec.
ExecAtRest == [status |-> [kind |-> "none", n |-> 0], code |-> 0, err |-> FALSE, done |-> FALSE]

\* An Exec whose child has ended.
InitExec ==
    \E w \in WaitStatuses : exec = [ExecAtRest EXCEPT !.status = w]

\* cmd.Wait() returns and Exec reports.
ExecReturn ==
    /\ ~exec.done
    /\ exec' = [exec EXCEPT !.code = ExecWait(exec.status).code,
                            !.err = ExecWait(exec.status).err,
                            !.done = TRUE]
    /\ UNCHANGED butExecVars

NextExec == ExecReturn

\* ========================================================================
\* Part VIII: the state query and the callers that branch on it
\* ========================================================================

\* "case <-time.After(5 * time.Second)"
MonitorTimeout == 5

\* The monitor replies after at most this many seconds, or, beyond
\* MonitorTimeout, too late for the query.
MaxDelay == 6

\* lxc.StateMap
LxcStates ==
    {"STOPPED", "STARTING", "RUNNING", "STOPPING", "ABORTING", "FREEZING",
     "FROZEN", "THAWED"}

\* The callers that branch on c.IsRunning().
StateCallers == {"Start", "Stop", "Rename", "CGroupSet", "deviceTaskBalance"}

\*   actual   the state the monitor replies with
\*   delay    the seconds it takes to reply
\*   caller   who asks
\*   elapsed  the seconds getLxcState has waited
\*   pc       "waiting", "returned" (getLxcState has), "branched" (the caller has)
\*   state, err   what getLxcState returned
\*   str      what c.State() returned
\*   branch   the branch the caller took; failed: the caller returned an error there
MonAtRest ==
    [actual |-> "STOPPED", delay |-> 0, caller |-> "none", elapsed |-> 0,
     pc |-> "idle", state |-> "", err |-> FALSE, str |-> "", branch |-> "",
     failed |-> FALSE]

InitMon ==
    \E s \in LxcStates, d \in 0..MaxDelay, who \in StateCallers :
        mon = [MonAtRest EXCEPT !.actual = s, !.delay = d, !.caller = who,
                                !.pc = "waiting"]

\* A second passes in the select of getLxcState.
MonTick ==
    /\ mon.pc = "waiting"
    /\ mon.elapsed < MonitorTimeout
    /\ mon.elapsed < mon.delay
    /\ mon' = [mon EXCEPT !.elapsed = @ + 1]
    /\ UNCHANGED butMonVars

\* The select of getLxcState, and c.State() on what it returns: the state
\* that the monitor sent, or, when the timer fires, FROZEN with
\* LxcMonitorStateError, for which c.State() returns api.Error.String().
MonSelect ==
    /\ mon.pc = "waiting"
    /\ \/ /\ mon.elapsed = mon.delay
          /\ mon' = [mon EXCEPT !.pc = "returned", !.state = mon.actual,
                                !.err = FALSE, !.str = mon.actual]
       \/ /\ mon.elapsed = MonitorTimeout
          /\ mon' = [mon EXCEPT !.pc = "returned", !.state = "FROZEN",
                                !.err = TRUE, !.str = "Error"]
    /\ UNCHANGED butMonVars

\* The caller branches on c.IsRunning(): Start (startCommon) and Rename
\* refuse a running container, Stop and CGroupSet a stopped one, and
\* deviceTaskBalance skips a stopped one.
MonBranch ==
    /\ mon.pc = "returned"
    /\ LET running == IsRunning([state |-> mon.str]) IN
       mon' = [mon EXCEPT
                 !.pc = "branched",
                 !.branch = IF running THEN "running" ELSE "stopped",
                 !.failed = \/ mon.caller \in {"Start", "Rename"} /\ running
                            \/ mon.caller \in {"Stop", "CGroupSet"} /\ ~running]
    /\ UNCHANGED butMonVars

NextMon ==
    \/ MonTick
    \/ MonSelect
    \/ MonBranch

\* ========================================================================
\* Part IX: one Stop, from the fork-bomb mitigation to its return
\* ========================================================================

\* A wait that reports every error of the operation: the variant that C24
\* must tell from the code.
WaitResultAnyState(err, running) == IF err THEN "err" ELSE "nil"

\* The end of Stop: "err = op.Wait(); if err != nil && c.IsRunning()".
WaitResult(err, running) == IF err /\ running THEN "err" ELSE "nil"

\*   pids, freezer   the host has the pids, the freezer cgroup controller
\*   ephemeral       the container is ephemeral
\*   pc       where Stop is: "mitigate", "stop", "wait", "returned"
\*   trace    what Stop and the post-stop hook have done, in order
\*   state    the state of the container
\*   op       the stop operation: "live", or completed with "nil" or "err"
\*   hook     the post-stop hook: "idle", "cleanup" (its goroutine runs), "done"
\*   ret      what Stop returned
StpAtRest ==
    [pids |-> FALSE, freezer |-> FALSE, ephemeral |-> FALSE,
     pc |-> "idle", trace |-> <<>>,
     state |-> "RUNNING", op |-> "live", hook |-> "idle", ret |-> "none"]

\* Stop(false) on a running container, after createOperation and initLXC.
InitStp ==
    \E p \in BOOLEAN, f \in BOOLEAN, e \in BOOLEAN :
        stp = [StpAtRest EXCEPT !.pids = p, !.freezer = f, !.ephemeral = e,
                                !.pc = "mitigate"]

\* "Fork-bomb mitigation": pids.max = 0, or without the pids controller a
\* Freeze that is given five seconds, after which the container is unfrozen.
StpMitigate ==
    /\ stp.pc = "mitigate"
    /\ \/ /\ stp.pids
          /\ stp' = [stp EXCEPT !.pc = "stop", !.trace = Append(@, "pids.max")]
       \/ /\ ~stp.pids /\ stp.freezer
          /\ \/ stp' = [stp EXCEPT !.pc = "stop", !.state = "FROZEN",
                                   !.trace = Append(@, "freeze")]
             \/ stp' = [stp EXCEPT !.pc = "stop",
                                   !.trace = Append(Append(@, "freeze"), "unfreeze")]
       \/ /\ ~stp.pids /\ ~stp.freezer
          /\ stp' = [stp EXCEPT !.pc = "stop"]
    /\ UNCHANGED butStpVars

\* "c.c.Stop()": on an error "op.Done(err)" and Stop returns it; else the
\* runtime stops the container, now or while Stop waits.
StpRuntimeStop ==
    /\ stp.pc = "stop"
    /\ \/ stp' = [stp EXCEPT !.pc = "returned", !.op = "err", !.ret = "err",
                             !.trace = Append(@, "stop")]
       \/ \E s \in {stp.state, "STOPPED"} :
             stp' = [stp EXCEPT !.pc = "wait", !.state = s,
                                !.trace = Append(@, "stop")]
    /\ UNCHANGED butStpVars

\* The container halts and the runtime calls OnStop: with the operation gone
\* it goes on without one; if StorageStop fails it completes the operation
\* with the error; else it starts its goroutine.
StpOnStop ==
    /\ stp.pc \in {"wait", "returned"}
    /\ stp.hook = "idle"
    /\ \/ stp' = [stp EXCEPT !.state = "STOPPED", !.hook = "done",
                             !.op = IF @ = "live" THEN "err" ELSE @]
       \/ stp' = [stp EXCEPT !.state = "STOPPED", !.hook = "cleanup"]
    /\ UNCHANGED butStpVars

\* The goroutine of OnStop: removeUnixDevices, removeDiskDevices, the Delete
\* of an ephemeral container, and on its return the deferred "op.Done(err)",
\* with the err of the time of the defer.
StpCleanup ==
    /\ stp.hook = "cleanup"
    /\ stp' = [stp EXCEPT !.hook = "done",
                          !.trace = IF stp.ephemeral
                                    THEN Append(Append(@, "cleanup"), "delete")
                                    ELSE Append(@, "cleanup"),
                          !.op = IF @ = "live" THEN "nil" ELSE @]
    /\ UNCHANGED butStpVars

\* "err = op.Wait()" and the end of Stop: Wait returns when the operation is
\* completed, by the hook or, with an error, by the operation's timer.
StpWait ==
    /\ stp.pc = "wait"
    /\ \/ /\ stp.op # "live"
          /\ stp' = [stp EXCEPT !.pc = "returned", !.trace = Append(@, "wait"),
                                !.ret = WaitResult(stp.op = "err", IsRunning(stp))]
       \/ /\ stp.op = "live"
          /\ stp' = [stp EXCEPT !.pc = "returned", !.trace = Append(@, "wait"),
                                !.op = "err",
                                !.ret = WaitResult(TRUE, IsRunning(stp))]
    /\ UNCHANGED butStpVars

NextStp ==
    \/ StpMitigate
    \/ StpRuntimeStop
    \/ StpOnStop
    \/ StpCleanup
    \/ StpWait

\* ========================================================================
\* Part X: Update applies a changed memory limit to the running container
\* ========================================================================

\* The limits of the model, in bytes: -1 is "no limit".
MemValues == {-1, 10, 20}

\* The cgroup values of the container before the update: hard limit, memory
\* and swap limit, soft limit.
OldValues ==
    {[limit |-> -1, memsw |-> -1, soft |-> -1, swappiness |-> 60],
     [limit |-> 20, memsw |-> 20, soft |-> 18, swappiness |-> 60],
     [limit |-> 10, memsw |-> 20, soft |-> 9, swappiness |-> 60]}

\* The most cgroup writes of one application, and "no write fails".
MaxWrites == 7

\* The changed keys that run the memory step.
MemoryKeys == {"limits.memory", "limits.memory.swap"}

\* "fmt.Sprintf("%.0f", float64(valueInt)*0.9)" on the values of the model:
\* -0.9 prints as -1, the others are whole.
SoftOf(v) == IF v = -1 THEN -1 ELSE (v * 9) \div 10

\* One "c.CGroupSet(key, value)" of the step: after an error the step has
\* returned and writes nothing; the write numbered failAt fails.
MemSet(s, key, value, phase) ==
    IF s.err THEN s
    ELSE IF s.n + 1 = s.failAt
         THEN [s EXCEPT !.n = @ + 1, !.err = TRUE, !.failedIn = phase]
         ELSE [s EXCEPT !.n = @ + 1,
                        !.cg = [@ EXCEPT ![key] = value],
                        !.log = Append(@, <<key, value, phase>>)]

\* "revertMemory": the old soft limit, hard limit, memory and swap limit are
\* written back, in this order.
revertMemory(s) ==
    LET w(t, key) ==
            [t EXCEPT !.cg = [@ EXCEPT ![key] = t.old[key]],
                      !.log = Append(@, <<key, t.old[key], "revert">>)]
        t1 == w(s, "soft")
        t2 == w(t1, "limit")
    IN  IF s.swapAccounting THEN w(t2, "memsw") ELSE t2

\* A reset of the hard limit alone: the variant that C25 must tell from the
\* code.
ResetHardOnly(s) == MemSet(s, "limit", -1, "reset")

\* "Reset everything": -1 to the memory and swap limit (with swap
\* accounting), the hard limit and the soft limit.
ResetEverything(s) ==
    LET s1 == IF s.swapAccounting THEN MemSet(s, "memsw", -1, "reset") ELSE s
        s2 == MemSet(s1, "limit", -1, "reset")
    IN  MemSet(s2, "soft", -1, "reset")

\* "Set the new values": under "soft" enforcement the soft limit alone; else
\* the hard limit, the memory and swap limit unless limits.memory.swap is
\* false, and the soft limit at 0.9 of the hard limit.
SetNewValues(s) ==
    IF s.enforce = "soft"
    THEN MemSet(s, "soft", s.memory, "set")
    ELSE LET s1 == MemSet(s, "limit", s.memory, "set")
             s2 == IF s.swapAccounting /\ (s.memorySwap = "" \/ IsTrue(s.memorySwap))
                   THEN MemSet(s1, "memsw", s.memory, "set")
                   ELSE s1
         IN  MemSet(s2, "soft", SoftOf(s.memory), "set")

\* "Configure the swappiness", for a changed limits.memory.swap: 0 when it
\* is false, else 60 - 10 + the priority, here 0.
ConfigureSwappiness(s) ==
    IF s.key = "limits.memory.swap"
    THEN IF s.memorySwap # "" /\ ~IsTrue(s.memorySwap)
         THEN MemSet(s, "swappiness", 0, "swappiness")
         ELSE MemSet(s, "swappiness", 60 - 10, "swappiness")
    ELSE s

\* The memory step of Update for one changed key: nothing without the
\* memory controller; else reset, set, "revertMemory" on a failure of
\* these, and then the swappiness, whose failure returns at once.
MemoryStep(s) ==
    IF ~s.controller THEN [s EXCEPT !.done = TRUE]
    ELSE LET s1 == SetNewValues(ResetEverything(s))
             s2 == IF s1.err THEN revertMemory(s1) ELSE ConfigureSwappiness(s1)
         IN  [s2 EXCEPT !.done = TRUE]

MemAtRest ==
    [controller |-> FALSE, swapAccounting |-> FALSE, enforce |-> "",
     memorySwap |-> "", memory |-> -1, key |-> "limits.memory",
     old |-> CHOOSE o \in OldValues : o.limit = -1,
     cg |-> CHOOSE o \in OldValues : o.limit = -1,
     failAt |-> 0, n |-> 0, err |-> FALSE, failedIn |-> "", log |-> <<>>,
     done |-> FALSE]

\* A running container whose expanded configuration has the new
\* limits.memory, limits.memory.enforce and limits.memory.swap, on a host
\* with or without the memory controller and swap accounting.
InitMem ==
    \E ctl \in BOOLEAN, sw \in BOOLEAN, e \in {"", "soft"},
       ms \in {"", "true", "false"}, m \in MemValues, k \in MemoryKeys,
       o \in OldValues, f \in 0..MaxWrites :
        mem = [MemAtRest EXCEPT !.controller = ctl, !.swapAccounting = sw,
                                !.enforce = e, !.memorySwap = ms, !.memory = m,
                                !.key = k, !.old = o, !.cg = o, !.failAt = f]

MemoryApply ==
    /\ ~mem.done
    /\ mem' = MemoryStep(mem)
    /\ UNCHANGED butMemVars

NextMem == MemoryApply

\* ========================================================================
\* Part XI: Start: the shift of the rootfs and the storage mounts
\* ========================================================================

\* The idmaps of the model, as the JSON of the volatile keys: "[]" is no
\* idmap, a rootfs that is not shifted.
StartIdmaps == {"[]", "A", "B"}

\* The most Starts of one behaviour.
MaxStarts == 2

\* Where a Start fails: "none" is a Start that succeeds; a failing unshift
\* or shift has changed none ("0") or some ("1") of the files.
StartFailPoints ==
    {"none", "remap_mount", "unshift0", "unshift1", "shift0", "shift1",
     "last_state", "current", "devices", "mount", "config", "chown",
     "start_mount", "forkstart", "hooks"}

\* "UnshiftRootfs" and "ShiftRootfs" on the rootfs: a rootfs that is not
\* under the idmap it is unshifted from, or is shifted twice, has wrong
\* owners ("mixed").
UnshiftRootfs(disk, m) == IF disk = m THEN "[]" ELSE "mixed"

ShiftRootfs(disk, m) == IF disk = "[]" THEN m ELSE "mixed"

\* "c.StorageStart()": mounts the storage unless it is mounted, and tells
\* whether it did.
StorageStart(s) == [s EXCEPT !.ourStart = ~s.mounted, !.mounted = TRUE]

\* "if ourStart { c.StorageStop() }".
StopIfOurs(s) == IF s.ourStart THEN [s EXCEPT !.mounted = FALSE] ELSE s

Failed(s) == [s EXCEPT !.ret = "err"]

\* "Deal with idmap changes" of startCommon: when the next idmap is not the
\* one of the rootfs (and not "no idmap on disk" under shiftfs), mount,
\* unshift, shift, and then record volatile.last_state.idmap.
Remap(s, fail) ==
    IF s.next = s.last \/ (s.last = "[]" /\ s.shiftfs) THEN s
    ELSE IF fail = "remap_mount" THEN Failed(s)
    ELSE LET s1 == StorageStart(s)
             unshifts == s.last # "[]"
             s2 == IF unshifts
                   THEN [s1 EXCEPT !.disk = UnshiftRootfs(@, s.last)]
                   ELSE s1
             shifts == s.next # "[]" /\ ~s.shiftfs
             s3 == IF shifts
                   THEN [s2 EXCEPT !.disk = ShiftRootfs(@, s.next)]
                   ELSE s2
         IN  IF unshifts /\ fail = "unshift0" THEN Failed(StopIfOurs(s1))
             ELSE IF unshifts /\ fail = "unshift1"
                  THEN Failed(StopIfOurs([s1 EXCEPT !.disk = "mixed"]))
             ELSE IF shifts /\ fail = "shift0" THEN Failed(StopIfOurs(s2))
             ELSE IF shifts /\ fail = "shift1"
                  THEN Failed(StopIfOurs([s2 EXCEPT !.disk = "mixed"]))
             ELSE IF fail = "last_state" THEN Failed(s3)
             ELSE [s3 EXCEPT !.last = IF shifts THEN s.next ELSE "[]",
                             !.remaps = @ + 1]

\* The rest of startCommon: volatile.idmap.current, the seccomp profile and
\* the devices, the mount, the configuration file, the owner and mode of the
\* directory and the backup file.
startCommonTail(s, fail) ==
    IF s.ret # "none" THEN s
    ELSE IF s.current # s.next /\ fail = "current" THEN Failed(s)
    ELSE LET s1 == [s EXCEPT !.current = s.next]
             s2 == StorageStart(s1)
         IN  IF fail = "devices" \/ fail = "mount" THEN Failed(s1)
             ELSE IF fail = "config" THEN Failed(s2)
             ELSE IF fail = "chown" THEN Failed(StopIfOurs(s2))
             ELSE s2

\* Start after startCommon: the mount, forkstart, and the post-start hooks,
\* whose failure stops the container, which unmounts its storage.
StartTail(s, fail) ==
    IF s.ret # "none" THEN s
    ELSE IF fail = "start_mount" THEN Failed(s)
    ELSE LET s1 == StorageStart(s)
         IN  IF fail = "forkstart" THEN Failed(s1)
             ELSE IF fail = "hooks" THEN Failed([s1 EXCEPT !.mounted = FALSE])
             ELSE [s1 EXCEPT !.ret = "ok", !.state = "RUNNING"]

StartOf(s, fail) ==
    StartTail(startCommonTail(Remap(s, fail), fail), fail)

\*   disk      the idmap the rootfs is shifted under, or "mixed"
\*   last, next, current   volatile.last_state.idmap, volatile.idmap.next,
\*             volatile.idmap.current
\*   shiftfs   the host has shiftfs
\*   mounted   the storage of the container is mounted
\*   before    the disk, the mount and the remaps before the last Start
\*   fail      where the last Start failed
\*   remaps    the remaps completed
ScAtRest ==
    [disk |-> "[]", last |-> "[]", next |-> "[]", current |-> "[]",
     shiftfs |-> FALSE, mounted |-> FALSE, ourStart |-> FALSE,
     state |-> "STOPPED", ret |-> "none", fail |-> "none", n |-> 0, remaps |-> 0,
     before |-> [disk |-> "[]", mounted |-> FALSE, last |-> "[]"]]

\* A stopped container whose volatile.last_state.idmap names the idmap of
\* its rootfs.
InitSc ==
    \E d \in StartIdmaps, x \in StartIdmaps, fs \in BOOLEAN, m \in BOOLEAN :
        sc = [ScAtRest EXCEPT !.disk = d, !.last = d, !.current = d, !.next = x,
                              !.shiftfs = fs, !.mounted = m]

\* Start(false) of the stopped container.
ScStart ==
    /\ sc.state = "STOPPED"
    /\ sc.n < MaxStarts
    /\ \E fail \in StartFailPoints :
          sc' = [StartOf([sc EXCEPT !.ret = "none", !.ourStart = FALSE], fail)
                    EXCEPT !.n = @ + 1, !.fail = fail,
                           !.before = [disk |-> sc.disk, mounted |-> sc.mounted,
                                       last |-> sc.last]]
    /\ UNCHANGED butScVars

\* The container stops: OnStop unmounts its storage.
ScStop ==
    /\ sc.state = "RUNNING"
    /\ sc' = [sc EXCEPT !.state = "STOPPED", !.mounted = FALSE]
    /\ UNCHANGED butScVars

\* Update of a stopped container plans another idmap: volatile.idmap.next.
ScReplan ==
    /\ sc.state = "STOPPED"
    /\ \E x \in StartIdmaps \ {sc.next} : sc' = [sc EXCEPT !.next = x]
    /\ UNCHANGED butScVars

NextSc ==
    \/ ScStart
    \/ ScStop
    \/ ScReplan

\* ========================================================================
\* Part XII: deviceTaskBalance, the CPU rebalance
\* ========================================================================

\* The CPUs of the host and the containers of the node.
MaxCpu == 2

HostCpus == 0..MaxCpu

BalContainers == {"c1", "c2"}

\* limits.cpu of a container: absent, a count, or a cpuset string.
CpuLimits ==
    {[kind |-> "absent", k |-> 0, set |-> {}]}
    \cup {[kind |-> "count", k |-> k, set |-> {}] : k \in 1..MaxCpu}
    \cup {[kind |-> "set", k |-> 0, set |-> S] : S \in SUBSET HostCpus \ {{}}}

\* "strconv.Atoi(cpulimit)": a count parses, a cpuset string does not, and
\* an absent limits.cpu is the string of the effective CPUs, "0,2" or "2",
\* which parses when it names one CPU.
AtoiCpuLimit(E, l) ==
    CASE l.kind = "count" -> [ok |-> TRUE, n |-> l.k]
      [] l.kind = "set" -> [ok |-> FALSE, n |-> 0]
      [] OTHER -> IF Cardinality(E) = 1
                  THEN [ok |-> TRUE, n |-> CHOOSE n \in E : TRUE]
                  ELSE [ok |-> FALSE, n |-> 0]

\* "parseCpuset(cpulimit)" of a limit that is not a count.
ParseCpuLimit(E, l) == IF l.kind = "set" THEN l.set ELSE E

\* The running containers that are pinned and those that are balanced.
FixedContainers(b) ==
    {c \in BalContainers : b.running[c] /\ ~AtoiCpuLimit(b.E, b.limit[c]).ok}

BalancedContainers(b) ==
    {c \in BalContainers : b.running[c] /\ AtoiCpuLimit(b.E, b.limit[c]).ok}

\* "count = min(count, len(cpus))".
BalancedCount(b, c) == Min(AtoiCpuLimit(b.E, b.limit[c]).n, Cardinality(b.E))

\* The pinning of a pinned container: its CPUs that are in E.
FixedPinning(b, c) == ParseCpuLimit(b.E, b.limit[c]) \cap b.E

\* The usage counters after the pinned containers.
FixedUsage(b) ==
    [cpu \in b.E |->
        Cardinality({c \in FixedContainers(b) : cpu \in FixedPinning(b, c)})]

\* The first k CPUs of "sort.Sort(sortedUsage)": the sort compares the
\* counters alone, on a slice in the order of a map iteration, so that CPUs
\* of equal usage come in any order.
Picks(E, usage, k) ==
    {S \in SUBSET E :
        /\ Cardinality(S) = k
        /\ \A a \in S, b \in E \ S : usage[a] <= usage[b]}

\* The orders in which "for ctn, count := range balancedContainers" visits
\* the balanced containers.
BalOrders(B) ==
    {o \in [1..Cardinality(B) -> B] : \A i, j \in DOMAIN o : o[i] = o[j] => i = j}

\* The usage counters when the container at place i of the order is visited.
UsageAt(b, order, pick, i) ==
    [cpu \in b.E |->
        FixedUsage(b)[cpu] + Cardinality({j \in 1..(i - 1) : cpu \in pick[order[j]]})]

\*   E         the effective CPUs of the host, less the isolated ones
\*   limit     limits.cpu of each container
\*   running   whether each container is running
\*   cpuset    cpuset.cpus of each container
\*   written   whether the rebalance wrote cpuset.cpus of the container
BalAtRest ==
    [E |-> HostCpus,
     limit |-> [c \in BalContainers |-> [kind |-> "absent", k |-> 0, set |-> {}]],
     running |-> [c \in BalContainers |-> FALSE],
     cpuset |-> [c \in BalContainers |-> HostCpus],
     written |-> [c \in BalContainers |-> FALSE],
     done |-> FALSE]

InitBal ==
    \E E \in SUBSET HostCpus \ {{}}, l \in [BalContainers -> CpuLimits],
       r \in [BalContainers -> BOOLEAN] :
        bal = [BalAtRest EXCEPT !.E = E, !.limit = l, !.running = r]

\* deviceTaskBalance: the pinned containers, the balanced ones in the order
\* of the map, and "Set the new pinning" for the containers that have one.
Balance ==
    /\ ~bal.done
    /\ \E order \in BalOrders(BalancedContainers(bal)),
          pick \in [BalancedContainers(bal) -> SUBSET bal.E] :
          /\ \A i \in DOMAIN order :
                pick[order[i]] \in Picks(bal.E, UsageAt(bal, order, pick, i),
                                         BalancedCount(bal, order[i]))
          /\ LET pinning ==
                     [c \in BalContainers |->
                         IF c \in FixedContainers(bal) THEN FixedPinning(bal, c)
                         ELSE IF c \in BalancedContainers(bal) THEN pick[c]
                         ELSE {}]
             IN  bal' = [bal EXCEPT
                            !.done = TRUE,
                            !.written = [c \in BalContainers |-> pinning[c] # {}],
                            !.cpuset = [c \in BalContainers |->
                                           IF pinning[c] # {} THEN pinning[c]
                                           ELSE bal.cpuset[c]]]
    /\ UNCHANGED butBalVars

NextBal == Balance

\* ========================================================================
\* Part XIII: the rebalance requests and the event listener
\* ========================================================================

\* The capacity of deviceSchedRebalance and the most triggers of a behaviour.
SchedCapacity == 2

MaxTriggers == 4

\* "deviceTaskSchedulerTrigger": a send that does not block; the event is
\* dropped when the channel is full.
SchedulerTrigger(s, status) ==
    IF Len(s.chan) < SchedCapacity
    THEN [s EXCEPT !.chan = Append(@, status), !.n = @ + 1]
    ELSE [s EXCEPT !.dropped = @ + 1, !.n = @ + 1]

\*   chan      deviceSchedRebalance
\*   running   whether the container runs
\*   limit     limits.cpu of the container in the database
\*   update    an Update that changes limits.cpu: "idle", "applied" (the
\*             live changes are applied, the database not written), "done",
\*             "failed"
\*   seen      the running flag and limits.cpu that the last rebalance loaded
\*   runs      the rebalances begun
\*   n, dropped   the triggers, and those of them that were dropped
SchAtRest ==
    [chan |-> <<>>, running |-> FALSE, limit |-> "1", update |-> "idle",
     seen |-> [running |-> FALSE, limit |-> "1"], runs |-> 0, n |-> 0,
     dropped |-> 0]

InitSch == \E r \in BOOLEAN :
    sch = [SchAtRest EXCEPT !.running = r, !.seen = [running |-> r, limit |-> "1"]]

\* OnStart and OnStop of the container: the trigger "started", "stopped".
SchStartStop ==
    /\ sch.n < MaxTriggers
    /\ sch' = SchedulerTrigger([sch EXCEPT !.running = ~@],
                               IF sch.running THEN "stopped" ELSE "started")
    /\ UNCHANGED butSchVars

\* Update of the running container with another limits.cpu, up to the end
\* of "Apply the live changes": the trigger "changed".
SchUpdateApply ==
    /\ sch.n < MaxTriggers
    /\ sch.update = "idle" /\ sch.running
    /\ sch' = SchedulerTrigger([sch EXCEPT !.update = "applied"], "changed")
    /\ UNCHANGED butSchVars

\* The rest of Update: the database transaction writes the new limits.cpu;
\* or a step fails and the deferred undo triggers once more.
SchUpdateFinish ==
    /\ sch.update = "applied"
    /\ \/ sch' = [sch EXCEPT !.update = "done", !.limit = "2"]
       \/ sch' = SchedulerTrigger([sch EXCEPT !.update = "failed"], "changed")
    /\ UNCHANGED butSchVars

\* deviceEventListener receives a rebalance event: deviceTaskBalance loads
\* the containers of the node from the database.
SchReceive ==
    /\ sch.chan # <<>>
    /\ sch' = [sch EXCEPT !.chan = Tail(@), !.runs = @ + 1,
                          !.seen = [running |-> sch.running, limit |-> sch.limit]]
    /\ UNCHANGED butSchVars

NextSch ==
    \/ SchStartStop
    \/ SchUpdateApply
    \/ SchUpdateFinish
    \/ SchReceive

\* ========================================================================
\* Part XIV: the two loops of the event handling
\* ========================================================================

\* The most events of a behaviour.
MaxEvents == 4

BusKinds == {"cpu", "network", "usb", "rebalance", "inotify"}

\*   pending    the events not yet received, by kind, in the order of arrival
\*   listener   what deviceEventListener runs: "idle" or the kind of its event
\*   inotify    what deviceInotifyHandler runs: "idle" or "inotify"
\*   handled    the events handled, by kind, in the order of their handling
\*   n          the events arrived
BusAtRest ==
    [pending |-> [k \in BusKinds |-> <<>>], listener |-> "idle",
     inotify |-> "idle", handled |-> [k \in BusKinds |-> <<>>], n |-> 0]

InitBus == bus = BusAtRest

\* An event arrives: a uevent read by the goroutine of deviceNetlinkListener,
\* a rebalance request, or an inotify event read by the goroutine of
\* deviceInotifyWatcher.
BusArrive ==
    /\ bus.n < MaxEvents
    /\ \E k \in BusKinds :
          bus' = [bus EXCEPT !.n = @ + 1,
                             !.pending[k] = Append(@, bus.n + 1)]
    /\ UNCHANGED butBusVars

\* The select of deviceEventListener receives an event of one of its four
\* channels and runs its handler.
BusListenerReceive ==
    /\ bus.listener = "idle"
    /\ \E k \in BusKinds \ {"inotify"} :
          /\ bus.pending[k] # <<>>
          /\ bus' = [bus EXCEPT !.listener = k,
                                !.pending[k] = Tail(@),
                                !.handled[k] = Append(@, Head(bus.pending[k]))]
    /\ UNCHANGED butBusVars

\* The handler of deviceEventListener returns.
BusListenerDone ==
    /\ bus.listener # "idle"
    /\ bus' = [bus EXCEPT !.listener = "idle"]
    /\ UNCHANGED butBusVars

\* The loop of deviceInotifyHandler receives an event and runs
\* deviceInotifyEvent.
BusInotifyReceive ==
    /\ bus.inotify = "idle"
    /\ bus.pending["inotify"] # <<>>
    /\ bus' = [bus EXCEPT !.inotify = "inotify",
                          !.pending["inotify"] = Tail(@),
                          !.handled["inotify"] =
                              Append(@, Head(bus.pending["inotify"]))]
    /\ UNCHANGED butBusVars

\* deviceInotifyEvent returns.
BusInotifyDone ==
    /\ bus.inotify # "idle"
    /\ bus' = [bus EXCEPT !.inotify = "idle"]
    /\ UNCHANGED butBusVars

NextBus ==
    \/ BusArrive
    \/ BusListenerReceive
    \/ BusListenerDone
    \/ BusInotifyReceive
    \/ BusInotifyDone

\* ========================================================================
\* Part XV: deviceUSBEvent, the USB hotplug
\* ========================================================================

\* The most uevents of a behaviour.
MaxUevents == 2

\* The containers in the order of containerLoadNodeAll; "nobody" is no
\* container.
UsbContainers == <<"c1", "c2">>

UsbVendors == {"v1", "v2"}

UsbProducts == {"p1", "p2"}

\* The USB devices, and the uevent of an action on one.
UsbDevices == [vendor : UsbVendors, product : UsbProducts]

Uevent(action, d) ==
    [action |-> action, vendor |-> d.vendor, product |-> d.product]

\* The one device entry of a container.
UsbEntries ==
    [type : {"usb", "unix-char"}, vendorid : {"", "v1"}, productid : {"", "p1"}]

\* "m["type"] != "usb"" and the comparison of vendorid and productid.
UsbMatches(m, e) ==
    /\ m.type = "usb"
    /\ ~(\/ m.vendorid # "" /\ m.vendorid # e.vendor
         \/ m.productid # "" /\ m.productid # e.product)

\* insertUnixDeviceNum: the node on the host, the bind mount in the
\* container, and devices.allow for a privileged container; a failure of
\* the mount leaves the node.
insertUnixDevice(d, privileged, fails) ==
    IF fails THEN [d EXCEPT !.node = TRUE]
    ELSE [d EXCEPT !.node = TRUE, !.mount = TRUE,
                   !.allow = IF privileged THEN TRUE ELSE @]

\* Whether removeUnixDeviceNum fails: without the node the attributes of
\* the device cannot be read.
removeFails(d, fails) == fails \/ ~d.node

\* removeUnixDeviceNum: devices.deny for a privileged container, the mount
\* and the file in the container, the node on the host.
removeUnixDevice(d, privileged, fails) ==
    IF removeFails(d, fails) THEN d
    ELSE [d EXCEPT !.node = FALSE, !.mount = FALSE,
                   !.allow = IF privileged THEN FALSE ELSE @]

\* The loop of deviceUSBEvent from the container at place i: containers that
\* do not run and entries that do not match are skipped; an error of the
\* insert or the remove ends the handler.
RECURSIVE UsbFrom(_, _, _, _)
UsbFrom(u, e, failing, i) ==
    IF i > Len(UsbContainers) THEN u
    ELSE LET c == UsbContainers[i]
             fails == failing = c
         IN  IF ~u.running[c] \/ ~UsbMatches(u.entry[c], e)
             THEN UsbFrom(u, e, failing, i + 1)
             ELSE IF e.action = "add"
             THEN LET v == [u EXCEPT !.dev[c] = insertUnixDevice(@, u.privileged, fails),
                                     !.acted[c] = TRUE]
                  IN  IF fails THEN v
                      ELSE UsbFrom([v EXCEPT !.injected[c] = @ + 1], e, failing, i + 1)
             ELSE LET v == [u EXCEPT !.dev[c] = removeUnixDevice(@, u.privileged, fails),
                                     !.acted[c] = TRUE]
                  IN  IF removeFails(u.dev[c], fails) THEN v
                      ELSE UsbFrom([v EXCEPT !.injected[c] = @ + 1], e, failing, i + 1)

NoDeviceState == [node |-> FALSE, mount |-> FALSE, allow |-> FALSE]

UsbNames == {UsbContainers[i] : i \in DOMAIN UsbContainers}

\*   running, entry   the containers: whether they run, their device entry
\*   privileged       the containers are privileged, with the devices cgroup
\*   dev        per container: the node on the host, the mount in the
\*              container, the permission of the devices cgroup
\*   acted      per container: the last uevent inserted or removed for it
\*   injected   per container: the uevents injected into it
\*   device     the USB device that is plugged and unplugged
\*   events     the uevents handled
\*   before     dev before the last uevent
UsbAtRest ==
    [running |-> [c \in UsbNames |-> FALSE],
     entry |-> [c \in UsbNames |-> [type |-> "usb", vendorid |-> "", productid |-> ""]],
     privileged |-> FALSE,
     dev |-> [c \in UsbNames |-> NoDeviceState],
     acted |-> [c \in UsbNames |-> FALSE],
     injected |-> [c \in UsbNames |-> 0],
     device |-> [vendor |-> "v1", product |-> "p1"],
     events |-> <<>>, first |-> [c \in UsbNames |-> NoDeviceState],
     before |-> [c \in UsbNames |-> NoDeviceState], failing |-> "nobody"]

\* Containers started with the USB device unplugged.
InitUsb ==
    \E r \in [UsbNames -> BOOLEAN], m \in [UsbNames -> UsbEntries], p \in BOOLEAN,
       d \in UsbDevices :
        usb = [UsbAtRest EXCEPT !.running = r, !.entry = m, !.privileged = p,
                                !.device = d]

\* deviceUSBEvent for one uevent, the add of the device and then its
\* remove, with the insert or remove of at most one container failing.
UsbEvent ==
    /\ Len(usb.events) < MaxUevents
    /\ \E failing \in UsbNames \cup {"nobody"} :
          LET e == Uevent(IF usb.events = <<>> THEN "add" ELSE "remove", usb.device)
          IN
          usb' = [UsbFrom([usb EXCEPT !.acted = [c \in UsbNames |-> FALSE]],
                          e, failing, 1)
                    EXCEPT !.events = Append(@, e),
                           !.before = usb.dev,
                           !.first = IF usb.events = <<>> THEN usb.dev ELSE @,
                           !.failing = failing]
    /\ UNCHANGED butUsbVars

NextUsb == UsbEvent

\* ========================================================================
\* Part XVI: the deferred templates
\* ========================================================================

\* The most OnStart calls and TemplateApply calls of a behaviour.
MaxOnStarts == 3

MaxTemplateApplies == 2

\* Where OnStart fails: in the templates of the recorded trigger, in the
\* removal of the key from the database, in the templates of "start".
OnStartFailPoints == {"none", "deferred", "remove", "start"}

\* OnStart from "Template anything that needs templating", on the container
\* as loaded from the database.
OnStartOf(t, fail) ==
    LET key == t.key
        t1 == IF key # "" /\ fail # "deferred"
              THEN [t EXCEPT !.applied = Append(@, key), !.times = @ + 1]
              ELSE t
    IN  IF key # "" /\ fail = "deferred" THEN [t EXCEPT !.ret = "err"]
        ELSE IF key # "" /\ fail = "remove" THEN [t1 EXCEPT !.ret = "err"]
        ELSE LET t2 == [t1 EXCEPT !.key = ""]
             IN  IF fail = "start" THEN [t2 EXCEPT !.ret = "err"]
                 ELSE [t2 EXCEPT !.applied = Append(@, "start"), !.ret = "ok"]

\*   key       volatile.apply_template
\*   applied   the triggers whose templates were rendered, in order
\*   times     how often the trigger that was last recorded was rendered
\*   ret       the result of the last OnStart
\*   fail      where the last OnStart failed
\*   starts, applies   the OnStart and TemplateApply calls
TplAtRest ==
    [key |-> "", applied |-> <<>>, times |-> 0, ret |-> "none", fail |-> "none",
     mark |-> 0, starts |-> 0, applies |-> 0]

InitTpl == tpl = TplAtRest

\* TemplateApply("create") or TemplateApply("copy"): nothing is rendered,
\* the trigger is recorded.
TemplateApply ==
    /\ tpl.applies < MaxTemplateApplies
    /\ \E trigger \in {"create", "copy"} :
          tpl' = [tpl EXCEPT !.key = trigger, !.times = 0, !.ret = "none",
                             !.applies = @ + 1]
    /\ UNCHANGED butTplVars

\* The start hook of the container.
OnStart ==
    /\ tpl.starts < MaxOnStarts
    /\ \E fail \in OnStartFailPoints :
          tpl' = [OnStartOf(tpl, fail) EXCEPT !.starts = @ + 1, !.fail = fail,
                                                !.mark = Len(tpl.applied)]
    /\ UNCHANGED butTplVars

NextTpl ==
    \/ TemplateApply
    \/ OnStart

\* ========================================================================
\* Part XVII: the table of the inotify watches
\* ========================================================================

\* The most watch descriptors that the kernel hands out in a behaviour.
MaxWd == 4

\* The directories that are watched, by path, and the directory that a path
\* names: "/var/run/x" and "/run/x" are one directory.
WatchPaths == {"/run/x", "/var/run/x", "/dev"}

DirOf(p) == IF p = "/dev" THEN "dev" ELSE "x"

WatchDirs == {DirOf(p) : p \in WatchPaths}

NoTarget == [path |-> "", wd |-> 0]

\* "unix.InotifyAddWatch(inFd, path, mask)": the descriptor of the watch of
\* the directory, a new one unless the directory is watched already.
InotifyAddWatch(i, p) ==
    IF i.watch[DirOf(p)] # 0 THEN i.watch[DirOf(p)] ELSE i.nextWd

\*   fd        whether the inotify instance is initialised
\*   byPath    the keys of InotifyWatch.Targets that are paths
\*   byWd      the keys of InotifyWatch.Targets made of a watch descriptor
\*   watch     the kernel's watch descriptor of each directory, 0 for none
\*   nextWd    the next watch descriptor of the kernel
InoAtRest ==
    [fd |-> FALSE, byPath |-> [p \in WatchPaths |-> NoTarget],
     byWd |-> [w \in 1..MaxWd |-> NoTarget],
     watch |-> [d \in WatchDirs |-> 0], nextWd |-> 1, ret |-> "none"]

InitIno == \E f \in BOOLEAN : ino = [InoAtRest EXCEPT !.fd = f]

\* deviceInotifyAddTarget(s, path); InotifyAddWatch may fail.
InotifyAddTarget ==
    \E p \in WatchPaths, fails \in BOOLEAN :
        /\ ino.nextWd <= MaxWd
        /\ IF ~ino.fd THEN ino' = [ino EXCEPT !.ret = "err"]
           ELSE IF ino.byPath[p] # NoTarget THEN ino' = [ino EXCEPT !.ret = "nil"]
           ELSE IF fails THEN ino' = [ino EXCEPT !.ret = "err"]
           ELSE LET wd == InotifyAddWatch(ino, p)
                    target == [path |-> p, wd |-> wd]
                IN  ino' = [ino EXCEPT !.byPath[p] = target,
                                       !.byWd[wd] = target,
                                       !.watch[DirOf(p)] = wd,
                                       !.nextWd = IF wd = @ THEN @ + 1 ELSE @,
                                       !.ret = "nil"]
        /\ UNCHANGED butInoVars

\* deviceInotifyDelWatcher(s, path): nothing without the inotify instance or
\* for a path that is not in the table; else InotifyRmWatch and the removal
\* of the two keys.
InotifyDelWatcher ==
    \E p \in WatchPaths :
        /\ IF ~ino.fd \/ ino.byPath[p] = NoTarget
           THEN ino' = [ino EXCEPT !.ret = "nil"]
           ELSE LET wd == ino.byPath[p].wd
                IN  ino' = [ino EXCEPT
                               !.watch = [d \in WatchDirs |->
                                             IF @[d] = wd THEN 0 ELSE @[d]],
                               !.byPath[p] = NoTarget,
                               !.byWd[wd] = NoTarget,
                               !.ret = "nil"]
        /\ UNCHANGED butInoVars

NextIno ==
    \/ InotifyAddTarget
    \/ InotifyDelWatcher

\* ========================================================================
\* The specifications
\* ========================================================================

\* The other parts at rest.
OpsAtRest ==
    /\ lxcContainerOperations = [c \in Containers |-> Nil]
    /\ ops = << >>
    /\ threads = [t \in Threads |-> IdleThread]
    /\ ct = [c \in Containers |->
               [state |-> "STOPPED", ephemeral |-> FALSE, exists |-> TRUE]]

IdmapAtRest == InitIdmap

DeleteAtRest == world = InstanceAtRest

LifeIsAtRest == life = LifeAtRest

UpdateIsAtRest == upd = UpdateAtRest

LaterAtRest == exec = ExecAtRest /\ mon = MonAtRest /\ stp = StpAtRest /\ mem = MemAtRest /\ sc = ScAtRest /\ bal = BalAtRest /\ sch = SchAtRest /\ bus = BusAtRest /\ usb = UsbAtRest /\ tpl = TplAtRest /\ ino = InoAtRest

vars == <<lxcContainerOperations, ops, threads, ct, cts, serial, requests, world, life, upd, exec, mon, stp, mem, sc, bal, sch, bus, usb, tpl, ino>>

Init == InitOps /\ IdmapAtRest /\ DeleteAtRest /\ LifeIsAtRest /\ UpdateIsAtRest /\ LaterAtRest

Spec == Init /\ [][NextOps]_vars

InitIdmapOnly == OpsAtRest /\ InitIdmap /\ DeleteAtRest /\ LifeIsAtRest /\ UpdateIsAtRest /\ LaterAtRest

SpecIdmap == InitIdmapOnly /\ [][NextIdmap]_vars

InitDeleteOnly == OpsAtRest /\ IdmapAtRest /\ InitDelete /\ LifeIsAtRest /\ UpdateIsAtRest /\ LaterAtRest

SpecDelete == InitDeleteOnly /\ [][NextDelete]_vars

InitLifeOnly == OpsAtRest /\ IdmapAtRest /\ DeleteAtRest /\ InitLife /\ UpdateIsAtRest /\ LaterAtRest

SpecLife == InitLifeOnly /\ [][NextLife]_vars

InitUpdateOnly == OpsAtRest /\ IdmapAtRest /\ DeleteAtRest /\ LifeIsAtRest /\ UpdateIsAtRest /\ LaterAtRest

SpecUpdate == InitUpdateOnly /\ [][NextUpdate]_vars

InitRestoreOnly == OpsAtRest /\ IdmapAtRest /\ DeleteAtRest /\ InitRestore /\ LaterAtRest

SpecRestore == InitRestoreOnly /\ [][NextRestore]_vars

InitExecOnly == OpsAtRest /\ IdmapAtRest /\ DeleteAtRest /\ LifeIsAtRest /\ UpdateIsAtRest /\ InitExec /\ mon = MonAtRest /\ stp = StpAtRest /\ mem = MemAtRest /\ sc = ScAtRest /\ bal = BalAtRest /\ sch = SchAtRest /\ bus = BusAtRest /\ usb = UsbAtRest /\ tpl = TplAtRest /\ ino = InoAtRest

SpecExec == InitExecOnly /\ [][NextExec]_vars

InitMonOnly == OpsAtRest /\ IdmapAtRest /\ DeleteAtRest /\ LifeIsAtRest /\ UpdateIsAtRest /\ InitMon /\ exec = ExecAtRest /\ stp = StpAtRest /\ mem = MemAtRest /\ sc = ScAtRest /\ bal = BalAtRest /\ sch = SchAtRest /\ bus = BusAtRest /\ usb = UsbAtRest /\ tpl = TplAtRest /\ ino = InoAtRest

SpecMon == InitMonOnly /\ [][NextMon]_vars

InitStpOnly == OpsAtRest /\ IdmapAtRest /\ DeleteAtRest /\ LifeIsAtRest /\ UpdateIsAtRest /\ InitStp /\ exec = ExecAtRest /\ mon = MonAtRest /\ mem = MemAtRest /\ sc = ScAtRest /\ bal = BalAtRest /\ sch = SchAtRest /\ bus = BusAtRest /\ usb = UsbAtRest /\ tpl = TplAtRest /\ ino = InoAtRest

SpecStp == InitStpOnly /\ [][NextStp]_vars

InitMemOnly == OpsAtRest /\ IdmapAtRest /\ DeleteAtRest /\ LifeIsAtRest /\ UpdateIsAtRest /\ InitMem /\ exec = ExecAtRest /\ mon = MonAtRest /\ stp = StpAtRest /\ sc = ScAtRest /\ bal = BalAtRest /\ sch = SchAtRest /\ bus = BusAtRest /\ usb = UsbAtRest /\ tpl = TplAtRest /\ ino = InoAtRest

SpecMem == InitMemOnly /\ [][NextMem]_vars

InitScOnly == OpsAtRest /\ IdmapAtRest /\ DeleteAtRest /\ LifeIsAtRest /\ UpdateIsAtRest /\ InitSc /\ exec = ExecAtRest /\ mon = MonAtRest /\ stp = StpAtRest /\ mem = MemAtRest /\ bal = BalAtRest /\ sch = SchAtRest /\ bus = BusAtRest /\ usb = UsbAtRest /\ tpl = TplAtRest /\ ino = InoAtRest

SpecSc == InitScOnly /\ [][NextSc]_vars

InitBalOnly == OpsAtRest /\ IdmapAtRest /\ DeleteAtRest /\ LifeIsAtRest /\ UpdateIsAtRest /\ InitBal /\ exec = ExecAtRest /\ mon = MonAtRest /\ stp = StpAtRest /\ mem = MemAtRest /\ sc = ScAtRest /\ sch = SchAtRest /\ bus = BusAtRest /\ usb = UsbAtRest /\ tpl = TplAtRest /\ ino = InoAtRest

SpecBal == InitBalOnly /\ [][NextBal]_vars

InitSchOnly == OpsAtRest /\ IdmapAtRest /\ DeleteAtRest /\ LifeIsAtRest /\ UpdateIsAtRest /\ InitSch /\ exec = ExecAtRest /\ mon = MonAtRest /\ stp = StpAtRest /\ mem = MemAtRest /\ sc = ScAtRest /\ bal = BalAtRest /\ bus = BusAtRest /\ usb = UsbAtRest /\ tpl = TplAtRest /\ ino = InoAtRest

SpecSch == InitSchOnly /\ [][NextSch]_vars

InitBusOnly == OpsAtRest /\ IdmapAtRest /\ DeleteAtRest /\ LifeIsAtRest /\ UpdateIsAtRest /\ InitBus /\ exec = ExecAtRest /\ mon = MonAtRest /\ stp = StpAtRest /\ mem = MemAtRest /\ sc = ScAtRest /\ bal = BalAtRest /\ sch = SchAtRest /\ usb = UsbAtRest /\ tpl = TplAtRest /\ ino = InoAtRest

SpecBus == InitBusOnly /\ [][NextBus]_vars

InitUsbOnly == OpsAtRest /\ IdmapAtRest /\ DeleteAtRest /\ LifeIsAtRest /\ UpdateIsAtRest /\ InitUsb /\ exec = ExecAtRest /\ mon = MonAtRest /\ stp = StpAtRest /\ mem = MemAtRest /\ sc = ScAtRest /\ bal = BalAtRest /\ sch = SchAtRest /\ bus = BusAtRest /\ tpl = TplAtRest /\ ino = InoAtRest

SpecUsb == InitUsbOnly /\ [][NextUsb]_vars

InitTplOnly == OpsAtRest /\ IdmapAtRest /\ DeleteAtRest /\ LifeIsAtRest /\ UpdateIsAtRest /\ InitTpl /\ exec = ExecAtRest /\ mon = MonAtRest /\ stp = StpAtRest /\ mem = MemAtRest /\ sc = ScAtRest /\ bal = BalAtRest /\ sch = SchAtRest /\ bus = BusAtRest /\ usb = UsbAtRest /\ ino = InoAtRest

SpecTpl == InitTplOnly /\ [][NextTpl]_vars

InitInoOnly == OpsAtRest /\ IdmapAtRest /\ DeleteAtRest /\ LifeIsAtRest /\ UpdateIsAtRest /\ InitIno /\ exec = ExecAtRest /\ mon = MonAtRest /\ stp = StpAtRest /\ mem = MemAtRest /\ sc = ScAtRest /\ bal = BalAtRest /\ sch = SchAtRest /\ bus = BusAtRest /\ usb = UsbAtRest /\ tpl = TplAtRest

SpecIno == InitInoOnly /\ [][NextIno]_vars

\* ------------------------------------------------------------------------
\* Claims about the operation registry
\* ------------------------------------------------------------------------

\* An operation is live from its Create to the Done that completes it.
Live(o) == ~ops[o].closed

\* C1: for every instance id, at every point of every interleaving of
\* createOperation callers, at most one operation exists that has been
\* created and not yet completed by Done.
C1_AtMostOneLiveOperation ==
    \A o1, o2 \in OpIds :
        Live(o1) /\ Live(o2) /\ ops[o1].id = ops[o2].id => o1 = o2

\* The places of a handler after its entry checks: its body is in flight.
InFlight(t) ==
    threads[t].at \in {"start_body", "start_hookfail", "start_defer", "stop_body",
                       "runtime_shutdown", "wait", "update_body", "delete_body"}

\* C2: for one instance, no two different handlers among Start, Stop,
\* Shutdown, Update and Delete are in flight at the same time, unless the
\* second has joined the first one's operation.
C2_HandlersSerialised ==
    \A t1, t2 \in Callers :
        (/\ t1 # t2
         /\ threads[t1].id = threads[t2].id
         /\ threads[t1].call # threads[t2].call
         /\ InFlight(t1)
         /\ InFlight(t2))
        => (threads[t1].op # Nil /\ threads[t1].op = threads[t2].op)

\* The step in which thread t calls createOperation on behalf of handler call:
\* a request for Start, Stop or Shutdown on a running container, the Stop
\* that Start calls, the Start that OnStop calls for a reboot.
CallsCreateOperation(t, call) ==
    \/ /\ call = "Start"
       /\ \/ CallStart(t)
          \/ threads[t].target = "reboot" /\ OnStopGo(t)
    \/ /\ call \in {"Stop", "Shutdown"}
       /\ ct[threads[t].id].state = "RUNNING"
       /\ CallStopOrShutdown(t, call)
    \/ /\ call = "Stop"
       /\ ct[threads[t].id].state = "RUNNING"
       /\ NestedStop(t)

\* The thread has returned from the handler it ran.
Returned(th) == th.at \in {"idle", "onstop_defer"}

\* C3: createOperation(action, reusable, reuse) on an instance that has a live
\* registered operation goes on to return that same operation, with its
\* deadline reset, if and only if reuse is requested and the operation is
\* reusable; in every other case it fails with the busy error that names the
\* operation's action and leaves the registry and the operation unchanged.
C3_ReuseOrBusy ==
    [][\A t \in Threads :
        /\ \A call \in {"Start", "Stop", "Shutdown"} :
              LET o == lxcContainerOperations[threads[t].id] IN
              (CallsCreateOperation(t, call) /\ o # Nil) =>
                 IF OpReuse(call) /\ ops[o].reusable
                 THEN /\ threads'[t].at = "create_reset"
                      /\ threads'[t].op = o
                 ELSE /\ Returned(threads'[t])
                      /\ threads'[t].ret = Busy(ops[o].action)
                      /\ UNCHANGED <<lxcContainerOperations, ops>>
        /\ CreateReset(t) =>
              /\ threads'[t].op = threads[t].op
              /\ ops'[threads[t].op] = [ops[threads[t].op] EXCEPT !.elapsed = 0]
              /\ UNCHANGED lxcContainerOperations
    ]_vars

\* C3 happens: a Stop has joined the live, registered operation of a Shutdown
\* that is still in the runtime.
C3_Witness ==
    \E t1, t2 \in Callers :
        /\ threads[t1].call = "Shutdown" /\ threads[t1].at = "runtime_shutdown"
        /\ threads[t2].call = "Stop" /\ threads[t2].at = "stop_body"
        /\ threads[t2].op = threads[t1].op
        /\ Live(threads[t1].op)
        /\ lxcContainerOperations[threads[t1].id] = threads[t1].op

\* C4: an operation whose timer has expired is completed; it is the timer
\* that completed it unless a Done came first, and it is registered no more.
C4_TimerCompletes ==
    \A o \in OpIds :
        ops[o].timer = "exited" =>
           /\ ops[o].closed
           /\ lxcContainerOperations[ops[o].id] # o

\* C5: the operation created by Shutdown is not completed by the idle timeout
\* while the runtime's graceful shutdown is still in progress.
C5_ShutdownOutlivesTimeout ==
    \A t \in Threads :
        (/\ threads[t].call = "Shutdown"
         /\ threads[t].at = "runtime_shutdown"
         /\ ops[threads[t].op].reusable)
        => ~(ops[threads[t].op].closed /\ ops[threads[t].op].err = "timeout")

\* C6: every operation that createOperation has returned is completed by some
\* Done, which releases its waiters: as long as it is not completed it is the
\* registered operation of its instance, the only one on which the creator's,
\* the hook's and the timer's Done have an effect.
C6_EveryOperationCompletes ==
    \A o \in OpIds :
        Live(o) => DoneApplies(o)

\* ------------------------------------------------------------------------
\* Claims about the idmap allocator
\* ------------------------------------------------------------------------

\* The container has a persisted host range of its own: it is isolated, not
\* privileged, and volatile.idmap.base is set.
Ranged(n) ==
    /\ cts[n].st \in {"ready", "updating"}
    /\ cts[n].cfg.iso
    /\ ~cts[n].cfg.priv
    /\ cts[n].vol # -1

\* The host range [volatile.idmap.base, base + size) of a container.
RangeOf(n) ==
    [lo |-> cts[n].vol,
     hi |-> cts[n].vol + idmapSize(cts[n].cfg.iso, cts[n].cfg.size)]

DisjointRanges(r1, r2) == r1.hi <= r2.lo \/ r2.hi <= r1.lo

\* C7: after any sequence of creations and idmap-affecting updates, made one
\* after the other, the host ranges of any two isolated non-privileged
\* containers are disjoint.
C7_RangesDisjoint ==
    (serial /\ InFlightNames = {}) =>
        \A n1, n2 \in Names :
            (n1 # n2 /\ Ranged(n1) /\ Ranged(n2))
            => DisjointRanges(RangeOf(n1), RangeOf(n2))

\* C8: two isolated containers without explicit base never receive the same or
\* overlapping host ranges, however their creations and updates interleave.
C8_ConcurrentAllocationsDisjoint ==
    \A n1, n2 \in Names :
        (/\ n1 # n2
         /\ Ranged(n1) /\ cts[n1].cfg.base = 0
         /\ Ranged(n2) /\ cts[n2].cfg.base = 0)
        => DisjointRanges(RangeOf(n1), RangeOf(n2))

\* The host ranges of the isolated non-privileged containers other than n.
OtherRanges(n) == {RangeOf(m) : m \in {k \in Names \ {n} : Ranged(k)}}

\* [off, off + size) starts at or after the host's base plus 65536, lies inside
\* the host's range and overlaps none of the ranges rs.
Fits(off, size, rs) ==
    /\ off >= HostBase + FirstOffset
    /\ off + size <= HostBase + HostRange
    /\ \A r \in rs : DisjointRanges([lo |-> off, hi |-> off + size], r)

\* The smallest offset that fits, if there is one: it is the host's base plus
\* 65536 or the end of one of the ranges.
FirstFit(size, rs) ==
    LET fit == {off \in {HostBase + FirstOffset} \cup {r.hi : r \in rs} : Fits(off, size, rs)}
    IN  IF fit = {}
        THEN [ok |-> FALSE, base |-> 0]
        ELSE [ok |-> TRUE, base |-> CHOOSE off \in fit : \A other \in fit : off <= other]

\* The ranges of the containers other than n overlap nowhere.
OthersDisjoint(n) ==
    \A m1, m2 \in Names \ {n} :
        (m1 # m2 /\ Ranged(m1) /\ Ranged(m2))
        => DisjointRanges(RangeOf(m1), RangeOf(m2))

\* C9: for an isolated container without explicit base, created when every
\* request so far was made after the one before it had ended and the ranges
\* of the other containers overlap nowhere, findIdmap returns the smallest
\* offset that fits, and fails exactly when none does.
C9_FindIdmapIsFirstFit ==
    [][\A n \in Names :
        (/\ CreateFindIdmap(n)
         /\ serial
         /\ OthersDisjoint(n)
         /\ cts[n].cfg.iso /\ ~cts[n].cfg.priv /\ cts[n].cfg.base = 0)
        => LET f == FirstFit(idmapSize(cts[n].cfg.iso, cts[n].cfg.size), OtherRanges(n))
           IN  IF f.ok
               THEN cts'[n].st = "found" /\ cts'[n].nbase = f.base
               ELSE cts'[n].st = "absent"
    ]_vars

\* ------------------------------------------------------------------------
\* Claims about Delete
\* ------------------------------------------------------------------------

\* C10, as the code has it: when security.protection.delete is true and the
\* instance is not a snapshot, Delete fails with the protection error and
\* touches nothing: snapshots, backups, device nodes, the storage volume, the
\* database record and the pool's volume record are as they were at the call.
C10_ProtectedContainerUntouched ==
    (world.protect /\ ~world.snapshot) =>
        /\ world.pc \in {"idle", "returned"}
        /\ world.pc = "returned" => world.ret = "protected"
        /\ Remains(world) = world.before

\* C10 happens: Delete has returned the protection error on a container that
\* has snapshots, backups, device nodes and a storage volume.
C10_Witness ==
    /\ world.protect /\ ~world.snapshot
    /\ world.pc = "returned" /\ world.ret = "protected"
    /\ world.snapshots > 0 /\ world.backups > 0
    /\ world.devNodes /\ world.volume
    /\ world.dbRecord /\ world.poolRecord

\* C10, as stated: when security.protection.delete is true, Delete fails with
\* the protection error and touches nothing.
C10_ProtectedUntouched ==
    world.protect =>
        /\ world.pc \in {"idle", "returned"}
        /\ world.pc = "returned" => world.ret = "protected"
        /\ Remains(world) = world.before

\* ------------------------------------------------------------------------
\* Claims about the post-stop hook
\* ------------------------------------------------------------------------

\* C11: when an ephemeral container has stopped (target "stop"), its post-stop
\* hook goes on to the post-stop work, after which it deletes the container,
\* whatever operation is registered at that time: it never returns before.
C11_EphemeralStopDeletes ==
    [][\A h \in Hooks :
        (/\ OnStopGet(h)
         /\ ct[threads[h].id].ephemeral
         /\ threads[h].target = "stop")
        => threads'[h].at = "onstop_run"
    ]_vars

\* C12: when OnStop is called with target "reboot" while a stop operation is
\* registered for the container, the Start that it calls after the post-stop
\* cleanup is not refused as busy.
C12_RebootStartsAgain ==
    \A h \in Hooks :
        (/\ threads[h].call = "OnStop"
         /\ threads[h].at = "onstop_defer"
         /\ threads[h].target = "reboot"
         /\ threads[h].hop # Nil)
        => threads[h].ret = "none"

\* C13: once a post-start hook of a Start has failed, no further hook of that
\* Start is run, and when the Start returns it returns the hook's error, its
\* operation has been completed with the hook's error, and the container is
\* stopped unless the runtime refused the stop.
C13_HookFailureEndsStart ==
    (life.call = "Start" /\ life.failedHook) =>
        /\ ~life.hookAfterFail
        /\ life.pc = "idle" =>
              /\ life.ret = "hook_err"
              /\ life.opErr = "hook_err"
              /\ (life.state = "STOPPED" \/ life.stopFailed)

\* C14: when a Start has returned: if it returned nil the stateful flag is
\* false and the state directory does not exist; if it was a stateful Start
\* of a container whose stateful flag was false it failed and never started
\* the runtime; if it was a stateful Start whose restore (c.Migrate) failed
\* the stateful flag is still true and a state directory that existed is
\* still there.
C14_StateAfterStart ==
    (life.call = "Start" /\ life.pc = "idle") =>
        /\ life.ret = "nil" => (~life.stateful /\ ~life.stateDir)
        /\ (life.arg /\ ~life.hadState) => (life.ret # "nil" /\ ~life.forked)
        /\ (life.arg /\ life.migrateErr) =>
              (life.stateful /\ (life.hadDir => life.stateDir))

\* C15 (as stated): a Freeze that succeeds on a Running container of a host
\* with the freezer cgroup changes only the state, to Frozen, and an Unfreeze
\* that succeeds on it changes only the state, back to Running; on any host,
\* Freeze on a frozen container and Unfreeze on a running container that is
\* not frozen fail and change nothing; Freeze and Unfreeze on a container that
\* is not running fail and change nothing.
C15_FreezeUnfreezeAnyHost ==
    [][(life.pc = "idle" /\ life'.pc = "idle" /\ life'.call \in {"Freeze", "Unfreeze"}) =>
        /\ [life' EXCEPT !.call = life.call, !.ret = life.ret, !.state = life.state] = life
        /\ (life'.call = "Freeze" /\ life.freezer /\ life.state = "RUNNING" /\ life'.ret = "nil")
              => life'.state = "FROZEN"
        /\ (life'.call = "Unfreeze" /\ life.freezer /\ life.state = "FROZEN" /\ life'.ret = "nil")
              => life'.state = "RUNNING"
        /\ (life'.call = "Freeze" /\ life.state = "FROZEN")
              => (life'.ret # "nil" /\ life'.state = life.state)
        /\ (life'.call = "Unfreeze" /\ life.state = "RUNNING")
              => (life'.ret # "nil" /\ life'.state = life.state)
        /\ life.state = "STOPPED"
              => (life'.ret # "nil" /\ life'.state = life.state)
    ]_vars

\* C15 (amended): the same, with the failure of Freeze on a frozen container
\* and of Unfreeze on a running container that is not frozen claimed only on
\* a host with the freezer cgroup; on a host without it neither changes
\* anything.
C15_FreezeUnfreeze ==
    [][(life.pc = "idle" /\ life'.pc = "idle" /\ life'.call \in {"Freeze", "Unfreeze"}) =>
        /\ [life' EXCEPT !.call = life.call, !.ret = life.ret, !.state = life.state] = life
        /\ (life'.call = "Freeze" /\ life.freezer /\ life.state = "RUNNING" /\ life'.ret = "nil")
              => life'.state = "FROZEN"
        /\ (life'.call = "Unfreeze" /\ life.freezer /\ life.state = "FROZEN" /\ life'.ret = "nil")
              => life'.state = "RUNNING"
        /\ (life'.call = "Freeze" /\ life.freezer /\ life.state = "FROZEN")
              => (life'.ret # "nil" /\ life'.state = life.state)
        /\ (life'.call = "Unfreeze" /\ life.freezer /\ life.state = "RUNNING")
              => (life'.ret # "nil" /\ life'.state = life.state)
        /\ ~life.freezer => life'.state = life.state
        /\ life.state = "STOPPED"
              => (life'.ret # "nil" /\ life'.state = life.state)
    ]_vars

\* A container that a Freeze has frozen and an Unfreeze has set running again.
C15_Witness ==
    /\ life.call = "Unfreeze"
    /\ life.ret = "nil"
    /\ life.freezer
    /\ life.state = "RUNNING"

C16_ReadOnlyKeysByKey ==
    /\ (/\ upd.args.userRequested
        /\ \E k \in ReadOnlyKeys : upd.args.config[k] # upd.pre.localConfig[k])
       => (upd.ret \notin {"nil", "none"} /\ upd.c = upd.pre /\ upd.db = upd.predb)
    /\ ~upd.args.userRequested => upd.ret # "readonly"

\* C17: when Update has returned an error, the description, architecture,
\* ephemeral flag, local and expanded config, local and expanded devices,
\* profiles and expiry date of the container in memory are what they were
\* when Update was called.
C17_ErrorRestoresInstance ==
    upd.ret \notin {"nil", "none"} =>
        /\ upd.c.description = upd.pre.description
        /\ upd.c.architecture = upd.pre.architecture
        /\ upd.c.ephemeral = upd.pre.ephemeral
        /\ upd.c.localConfig = upd.pre.localConfig
        /\ upd.c.expandedConfig = upd.pre.expandedConfig
        /\ upd.c.localDevices = upd.pre.localDevices
        /\ upd.c.expandedDevices = upd.pre.expandedDevices
        /\ upd.c.profiles = upd.pre.profiles
        /\ upd.c.expiryDate = upd.pre.expiryDate

\* An Update that failed after its database transaction had committed a
\* change of the expanded config.
C17_Witness ==
    /\ upd.ret = "err"
    /\ upd.db # upd.predb
    /\ ProfilesExpandConfig(upd.db.config, upd.db.profiles) # upd.pre.expandedConfig
    /\ upd.c = upd.pre

\* C18: when Update has returned nil, expanding the local config, the local
\* devices and the profiles of the database row gives the expanded config and
\* the expanded devices that the container in memory holds.
C18_ReexpansionAgrees ==
    upd.ret = "nil" =>
        /\ ProfilesExpandConfig(upd.db.config, upd.db.profiles) = upd.c.expandedConfig
        /\ ProfilesExpandDevices(upd.db.devices, upd.db.profiles) = upd.c.expandedDevices

C21_RestoredIsSnapshot ==
    upd.ret = "restored" =>
        /\ upd.c.localConfig = upd.args.config
        /\ upd.c.localDevices = upd.args.devices
        /\ upd.c.profiles = upd.args.profiles
        /\ upd.c.description = upd.args.description
        /\ upd.c.architecture = upd.args.architecture
        /\ upd.c.ephemeral = upd.args.ephemeral
        /\ life.hadState => life.state = "RUNNING"

\* C22: an Exec with wait that has returned reports 0 for a child that exited
\* with status 0, 128 + N for a child that signal N terminated, and the
\* child's exit status otherwise.
C22_ExitCode ==
    exec.done =>
        /\ exec.status.kind = "exited" => (exec.code = exec.status.n /\ ~exec.err)
        /\ exec.status.kind = "signaled" => (exec.code = 128 + exec.status.n /\ ~exec.err)

\* C23: a state query whose monitor does not reply within the timeout has
\* returned when the timeout has passed, with the error and a state string
\* that is none of the runtime's states; and the caller that branched on it
\* took neither the branch of a running container nor that of a stopped one,
\* and did not return an error there.
C23_MonitorHung ==
    mon.delay > MonitorTimeout =>
        /\ mon.elapsed <= MonitorTimeout
        /\ mon.pc \in {"returned", "branched"} =>
              (mon.err /\ mon.str \notin LxcStates)
        /\ mon.pc = "branched" =>
              (mon.branch \notin {"running", "stopped"} /\ ~mon.failed)

\* The places of a step in the trace of Stop, and "every x is before every y".
StpAt(x) == {i \in DOMAIN stp.trace : stp.trace[i] = x}

StpBefore(x, y) == \A i \in StpAt(x), j \in StpAt(y) : i < j

\* The order of Stop's steps and what its return after the wait means: the
\* mitigation is before the runtime stop, that before the wait; a nil after
\* the wait finds the operation completed by the post-stop hook after its
\* cleanup, or the container not running; an error after the wait finds the
\* operation completed with an error and the container running until its
\* hook runs.
StpOrderAndReturn ==
    /\ StpBefore("pids.max", "stop") /\ StpBefore("freeze", "stop")
    /\ StpBefore("unfreeze", "stop") /\ StpBefore("stop", "wait")
    /\ (StpAt("wait") # {} /\ stp.ret = "nil") =>
          \/ /\ stp.op = "nil"
             /\ StpAt("cleanup") # {}
             /\ StpBefore("cleanup", "wait")
          \/ ~IsRunning(stp)
    /\ (StpAt("wait") # {} /\ stp.ret = "err") =>
          (stp.op = "err" /\ (stp.hook = "idle" => IsRunning(stp)))

\* C24 as stated: Stop does the fork-bomb mitigation, pids.max = 0 or a
\* freeze when there is no pids controller, then the runtime stop request,
\* then the wait on the operation; a successful Stop returns after the hook
\* completed the operation or with the container not running; an error
\* after the wait means a failed operation and a running container.
C24_StopOrderAnyHost ==
    /\ StpOrderAndReturn
    /\ StpAt("stop") # {} =>
          IF stp.pids THEN StpAt("pids.max") # {} ELSE StpAt("freeze") # {}

\* C24, amended: the same, where the freeze is the mitigation of a host
\* without the pids controller that has the freezer controller; a host with
\* neither gets no mitigation.
C24_StopOrder ==
    /\ StpOrderAndReturn
    /\ StpAt("stop") # {} =>
          /\ stp.pids => (StpAt("pids.max") # {} /\ StpAt("freeze") = {})
          /\ (~stp.pids /\ stp.freezer) => StpAt("freeze") # {}
          /\ (~stp.pids /\ ~stp.freezer) =>
                (StpAt("pids.max") = {} /\ StpAt("freeze") = {})

\* A Stop on a host without the pids controller that froze the container,
\* stopped it and returned nil after the hook's goroutine completed its
\* operation.
C24_Witness ==
    /\ stp.ret = "nil"
    /\ stp.op = "nil"
    /\ ~stp.ephemeral
    /\ stp.trace = <<"freeze", "stop", "cleanup", "wait">>

\* The writes of a phase to a key, as places in the log of the memory step.
MemAt(key, phase) ==
    {i \in DOMAIN mem.log : mem.log[i][1] = key /\ mem.log[i][3] = phase}

\* The limits that the memory step resets: with swap accounting all three.
MemLimits ==
    IF mem.swapAccounting THEN {"memsw", "limit", "soft"} ELSE {"limit", "soft"}

\* Every limit is written to -1 before any limit is written with a new value.
MemResetFirst ==
    \A k \in MemLimits, k2 \in MemLimits :
        \A j \in MemAt(k2, "set") :
            \E i \in MemAt(k, "reset") : i < j /\ mem.log[i][2] = -1

\* C25 as stated: in a live change of the memory limit that succeeds, all
\* the limits are written to -1 before any is written with a new value, and
\* afterwards the hard limit, the memory and swap limit (with swap
\* accounting) and the soft limit, at 0.9 of the hard limit, are all set.
C25_ResetThenSetAll ==
    (mem.done /\ ~mem.err) =>
        /\ MemResetFirst
        /\ mem.cg.limit = mem.memory
        /\ mem.swapAccounting => mem.cg.memsw = mem.memory
        /\ mem.cg.soft = SoftOf(mem.memory)
        /\ MemAt("limit", "set") # {} /\ MemAt("soft", "set") # {}

\* C25, amended: with the memory controller, the limits are all written to
\* -1 before any is written with a new value; under "soft" enforcement the
\* soft limit alone is then set, to the limit; else the hard limit, the
\* memory and swap limit if swap accounting is available and
\* limits.memory.swap is not false, and the soft limit at 0.9 of the hard
\* limit. Without the memory controller nothing is written.
C25_ResetThenSet ==
    (mem.done /\ ~mem.err) =>
        IF ~mem.controller THEN mem.log = <<>> /\ mem.cg = mem.old
        ELSE /\ MemResetFirst
             /\ \A k \in MemLimits : MemAt(k, "reset") # {}
             /\ IF mem.enforce = "soft"
                THEN /\ mem.cg.soft = mem.memory
                     /\ mem.cg.limit = -1
                     /\ mem.swapAccounting => mem.cg.memsw = -1
                ELSE /\ mem.cg.limit = mem.memory
                     /\ mem.cg.soft = SoftOf(mem.memory)
                     /\ mem.swapAccounting =>
                           mem.cg.memsw =
                               IF mem.memorySwap = "" \/ IsTrue(mem.memorySwap)
                               THEN mem.memory ELSE -1

\* A change to a limit of 20 with swap accounting, from limits of 10 and 20.
C25_Witness ==
    /\ mem.done /\ ~mem.err
    /\ mem.controller /\ mem.swapAccounting /\ mem.enforce = ""
    /\ mem.old.limit = 10 /\ mem.memory = 20
    /\ mem.cg.limit = 20 /\ mem.cg.memsw = 20 /\ mem.cg.soft = 18

\* C26: when a cgroup write of the memory step fails, the swappiness write
\* included, the hard limit, the memory and swap limit and the soft limit
\* are written back to their values of before the update, and Update returns
\* the error.
C26_FailureRevertsAll ==
    (mem.done /\ mem.err) =>
        /\ mem.cg.limit = mem.old.limit
        /\ mem.cg.memsw = mem.old.memsw
        /\ mem.cg.soft = mem.old.soft

\* C27: between operations volatile.last_state.idmap names the idmap the
\* rootfs is shifted under, also after a Start that failed in the unshift,
\* the shift or the write of the key, so that no later Start unshifts or
\* shifts the rootfs twice; after a successful Start volatile.idmap.current
\* is the next idmap.
C27_LastStateIsDisk ==
    /\ sc.last = sc.disk
    /\ sc.disk # "mixed"
    /\ sc.ret = "ok" => sc.current = sc.next

\* C28: after a Start that failed, at whatever step, the storage is mounted
\* exactly if it was mounted before the Start.
C28_FailedStartReleasesMounts ==
    sc.ret = "err" => sc.mounted = sc.before.mounted

\* C29: after a rebalance every running container whose limits.cpu is a
\* cpuset string has exactly the CPUs of its set that are in the effective
\* set E, whatever E and the set, also with CPUs outside of E.
C29_PinnedGetsIntersection ==
    bal.done =>
        \A c \in BalContainers :
            (bal.running[c] /\ bal.limit[c].kind = "set") =>
                bal.cpuset[c] = bal.limit[c].set \cap bal.E

\* The k least loaded CPUs of E, the lowest ids first among equals.
LowestPick(E, usage, k) ==
    CHOOSE S \in SUBSET E :
        /\ Cardinality(S) = k
        /\ \A a \in S, b \in E \ S :
              usage[a] < usage[b] \/ (usage[a] = usage[b] /\ a < b)

\* The greedy assignment with the balanced containers taken in the order of
\* their names: the set of the container c.
RECURSIVE GreedyFrom(_, _, _)
GreedyFrom(todo, usage, c) ==
    LET first == CHOOSE x \in todo : \A y \in todo : x = "c1" \/ y # "c1"
        k == IF bal.limit[first].kind = "count"
             THEN Min(bal.limit[first].k, Cardinality(bal.E))
             ELSE Cardinality(bal.E)
        S == LowestPick(bal.E, usage, k)
    IN  IF first = c THEN S
        ELSE GreedyFrom(todo \ {first},
                        [cpu \in bal.E |-> usage[cpu] + IF cpu \in S THEN 1 ELSE 0],
                        c)

\* C30: after a rebalance every running container with a count k as
\* limits.cpu, or none, has min(k, |E|) CPUs (|E| with none), the least
\* loaded of E by the usage counters when it is taken, the lowest ids first
\* among equals, so that its CPUs are a function of E and the limits; a
\* container without limits.cpu has all of E, also when E is one CPU.
C30_BalancedGetsLeastLoaded ==
    bal.done =>
        LET balanced == {c \in BalContainers :
                            bal.running[c] /\ bal.limit[c].kind = "count"}
            pinned == {c \in BalContainers :
                          bal.running[c] /\ bal.limit[c].kind # "count"}
            usage == [cpu \in bal.E |->
                         Cardinality({c \in pinned :
                             cpu \in ParseCpuLimit(bal.E, bal.limit[c])})]
        IN  /\ \A c \in balanced : bal.cpuset[c] = GreedyFrom(balanced, usage, c)
            /\ \A c \in BalContainers :
                  (bal.running[c] /\ bal.limit[c].kind = "absent") =>
                      bal.cpuset[c] = bal.E

\* C31: the rebalance requests coalesce and none is lost: at most two are
\* pending, and once the requests are served and no Update is under way, the
\* last rebalance has seen the running containers and limits.cpu as they are.
C31_LastChangeRebalanced ==
    /\ Len(sch.chan) <= SchedCapacity
    /\ (sch.chan = <<>> /\ sch.update # "applied") =>
          (sch.seen.running = sch.running /\ sch.seen.limit = sch.limit)

\* C32: no two of the handlers of the events (rebalance, network priority,
\* USB hotplug, inotify) run at the same time, and the USB events and the
\* inotify events are each handled in the order of their arrival.
C32_OneHandlerAtATime ==
    /\ bus.listener = "idle" \/ bus.inotify = "idle"
    /\ \A k \in {"usb", "inotify"} :
          \A i, j \in DOMAIN bus.handled[k] :
              i < j => bus.handled[k][i] < bus.handled[k][j]

\* The containers that the last uevent is for: running, with a usb entry
\* whose vendorid and productid, when set, are those of the uevent.
UsbTargets ==
    {c \in UsbNames :
        /\ usb.running[c]
        /\ usb.entry[c].type = "usb"
        /\ usb.entry[c].vendorid \in {"", usb.events[Len(usb.events)].vendor}
        /\ usb.entry[c].productid \in {"", usb.events[Len(usb.events)].product}}

\* C33: an error met for one container is logged and the handler goes on
\* with the other containers: when the insert or the remove of a container
\* fails, every other container that the uevent is for is still handled.
C33_ErrorOfOneContainer ==
    (usb.events # <<>> /\ usb.failing # "nobody") =>
        \A c \in UsbTargets \ {usb.failing} : usb.acted[c]

\* C34: a uevent acts on the entry of a container exactly if the container
\* runs, the entry is of type usb and its vendorid and productid, when set,
\* are those of the uevent; the others are left as they were, and the
\* uevent is injected for matching entries only.
C34_ActsIffMatches ==
    usb.events # <<>> =>
        \A c \in UsbNames :
            /\ usb.acted[c] <=> c \in UsbTargets
            /\ c \notin UsbTargets => usb.dev[c] = usb.before[c]
            /\ usb.injected[c] > 0 => usb.entry[c].type = "usb" /\ usb.running[c]

\* C35: for a running container with a matching usb entry, an add uevent
\* followed by a remove uevent of the same device leaves the node on the
\* host, the mount in the container and the permission of the devices
\* cgroup as they were before the add.
C35_RemoveReversesAdd ==
    (/\ Len(usb.events) = 2
     /\ usb.events[1] = Uevent("add", usb.device)
     /\ usb.events[2] = Uevent("remove", usb.device)) =>
        \A c \in UsbTargets : usb.dev[c] = usb.first[c]

\* C36: TemplateApply with "create" or "copy" renders nothing and records
\* the trigger; the next start renders the recorded trigger, clears the key
\* and renders "start"; the recorded trigger is rendered once, so that a key
\* that is still set was not rendered yet; and when the templates of the
\* recorded trigger fail the key stays and the start fails.
C36_DeferredOnce ==
    /\ tpl.times <= 1
    /\ tpl.key # "" => tpl.times = 0
    /\ tpl.ret = "ok" =>
          /\ tpl.key = ""
          /\ tpl.applied[Len(tpl.applied)] = "start"
          /\ \A i \in (tpl.mark + 1)..(Len(tpl.applied) - 1) :
                tpl.applied[i] \in {"create", "copy"} /\ i = tpl.mark + 1
    /\ (tpl.ret = "err" /\ tpl.fail = "deferred") => tpl.key # ""

\* C37: Done has an effect only on the operation that is registered for its
\* instance: an operation that is completed keeps its first error, an
\* operation is completed only while it is the registered one, and the
\* timeout of an operation changes no other operation and, when another
\* operation is registered for the instance, not the registry.
C37_DoneOnlyRegistered ==
    [][\A o \in OpIds :
        /\ ops[o].closed => (ops'[o].closed /\ ops'[o].err = ops[o].err)
        /\ (~ops[o].closed /\ ops'[o].closed) =>
              /\ lxcContainerOperations[ops[o].id] = o
              /\ lxcContainerOperations'[ops[o].id] = Nil
        /\ TimerExpire(o) =>
              /\ \A p \in OpIds \ {o} : ops'[p] = ops[p]
              /\ lxcContainerOperations[ops[o].id] # o =>
                    UNCHANGED lxcContainerOperations
    ]_vars

\* C37 happens: the timer of a completed operation has expired while a newer
\* operation of the same instance is registered and not completed.
C37_Witness ==
    \E o, p \in OpIds :
        /\ o # p
        /\ ops[o].id = ops[p].id
        /\ ops[o].timer = "exited" /\ ops[o].closed /\ ops[o].err # "timeout"
        /\ lxcContainerOperations[ops[p].id] = p
        /\ ~ops[p].closed

\* C38: Reset never blocks its caller: no caller of createOperation is at
\* the Reset of a reusable operation whose timer goroutine has returned and
\* receives no more.
C38_ResetReturns ==
    \A t \in Threads :
        threads[t].at = "create_reset" =>
            (ops[threads[t].op].reusable => ops[threads[t].op].timer = "alive")

\* C39: when Update has returned an error, the row of the container in the
\* database, its config, profiles, devices and header, is what it was when
\* Update was called, also when the failure came after the transaction.
C39_ErrorKeepsDatabase ==
    upd.ret \notin {"nil", "none"} => upd.db = upd.predb

\* C40: after any calls of deviceInotifyAddTarget and
\* deviceInotifyDelWatcher the table has for every watched path two keys,
\* the path and the key of its watch descriptor, for one entry, and no other
\* key; without an initialised inotify instance the table stays empty.
C40_TwoKeysPerPath ==
    /\ \A p \in WatchPaths :
          ino.byPath[p] # NoTarget =>
              (ino.byPath[p].path = p /\ ino.byWd[ino.byPath[p].wd] = ino.byPath[p])
    /\ \A w \in 1..MaxWd :
          ino.byWd[w] # NoTarget =>
              (ino.byWd[w].wd = w /\ ino.byPath[ino.byWd[w].path] = ino.byWd[w])
    /\ ~ino.fd => \A p \in WatchPaths : ino.byPath[p] = NoTarget

====
